---- MODULE Spec2Model ----
(***************************************************************************)
(* Multi-user WhatsApp session manager of CEKWA                            *)
(* (backend/internal/whatsapp/multi_user_manager.go), its HTTP handlers    *)
(* and the payment check they use.                                         *)
(*                                                                         *)
(* Session objects live on a heap (sess) and are referenced from the       *)
(* registry (userSessions), from requests in flight (procs) and from the   *)
(* pairing watchers (one per client that entered the pairing flow).        *)
(* Durations are counted in ticks of the model clock; the model keeps the  *)
(* order of the two durations of the code (the connect cool-down is        *)
(* shorter than the pairing wait), not their ratio.  A timestamp is kept   *)
(* as its age, the number of ticks since it was taken, and an age stops    *)
(* growing where no comparison of the code can tell the difference.        *)
(***************************************************************************)
EXTENDS Integers, Sequences, FiniteSets, TLC

\* ---------------------------------------------------------------- bounds
NumUsers == 1
NumProcs == 2
NumWorkers == 3
NumPhones == 1
NumCodes == 1
MaxSessions == 2
MaxClients == 2
MaxTxns == 1
NumPayers == 2
NumPayPhones == 2
MaxAge == 3
MaxContacts == 1
MaxGroups == 0
MaxRows == 1
MaxCalls == 3
NumTenants == 2
MaxMonitors == 2
MaxResets == 2
MaxRefreshes == 1
MaxCount == 3
NumThreads == 2

\* ------------------------------------------------------ program constants
ConnectCooldown == 1
QRTimeout == 2

Users == 1..NumUsers
Procs == 1..NumProcs
\* the requests in flight where three of them meet on one session
Workers == 1..NumWorkers
Phones == 1..NumPhones
Codes == 1..NumCodes
SessIds == 1..MaxSessions
ClientIds == 1..MaxClients
TxnIds == 1..MaxTxns
\* the users where two of them are served side by side
Tenants == 1..NumTenants
Monitors == 1..MaxMonitors
Threads == 1..NumThreads
\* the user ids and phone numbers that payments are made for
Payers == 1..NumPayers
PayPhones == 1..NumPayPhones

\* absent values: a missing map entry, a nil pointer, an unlocked mutex
NoSession == 0
NilClient == 0
NoProc == 0
NoID == 0
NoUser == 0
EmptyString == << >>
EmptyCache == << >>
NoRow == << >>

Statuses == {"disconnected", "connecting", "scanning", "connected"}

VARIABLES
    userSessions,   \* registry: user -> session object or NoSession
    regMu,          \* holder of the registry's exclusive lock, or NoProc
    nSess,          \* number of session objects constructed so far
    sess,           \* the session objects
    sessionDB,      \* per session object: device identity held by its credential store
    diskID,         \* per user: device identity in the credential files on disk
    nClients,       \* number of messaging clients stored in a session so far
    clients,        \* the messaging clients and the pairing watcher of each
    storeFiles,     \* per user: the sqlite credential files exist on disk
    dbRows,         \* per user: the persisted whatsapp_sessions row
    pendingSaves,   \* persistence goroutines spawned and not yet run
    spawned,        \* users for whom GetQRCode spawned a Connect not yet started
    txns,           \* the transactions table
    nTxns,          \* number of transactions created
    procs,          \* the requests in flight
    loggedOut,      \* session objects removed from the registry by Logout
    quiet,          \* per user: Logout has returned and no request arrived since
    analysisDB,     \* number of rows in scan_histories and in analysis_results
    calculated,     \* the inputs last handed to CalculateStrength (or, in
                    \* SpecGroups, to calculateTotalGroups), the label it
                    \* returned, and what every call so far returned
    storeDriver,    \* WA_STORE_DRIVER: where the credential stores are kept
    wa,             \* the single-user WhatsApp object, its stop channels and monitors
    threads         \* per goroutine: the manager operation it runs and how far it is
                    \* through that operation's lock calls

vars == << userSessions, regMu, nSess, sess, sessionDB, diskID, nClients, clients,
           storeFiles, dbRows, pendingSaves, spawned, txns, nTxns, procs,
           loggedOut, quiet, analysisDB, calculated, storeDriver, wa, threads >>

\* ------------------------------------------------------------ data model
BlankSession ==
    [ UserID |-> NoUser, Status |-> "disconnected", Ready |-> FALSE,
      QRCode |-> EmptyString, Client |-> NilClient,
      SinceLastActivity |-> 0, SinceLastConnectAttempt |-> ConnectCooldown,
      AnalysisCache |-> EmptyCache, mu |-> NoProc ]

\* LastActivity is time.Now(); LastConnectAttempt is the zero time, which
\* lies further back than any cool-down
NewSession(u) ==
    [ BlankSession EXCEPT !.UserID = u, !.SinceLastActivity = 0,
                          !.SinceLastConnectAttempt = ConnectCooldown ]

BlankClient ==
    [ sess |-> NoSession, connected |-> FALSE, storeID |-> NoID,
      qrChan |-> "nil", watcher |-> "none", waited |-> 0 ]

IdleProc ==
    [ op |-> "idle", pc |-> "idle", user |-> NoUser, s |-> NoSession,
      c |-> NilClient, phone |-> NoID, k |-> "", ret |-> "", at |-> "",
      saved |-> 0, unsaved |-> 0, groups |-> 0 ]

\* a monitor slot no goroutine has taken
NoMonitor ==
    [ kind |-> "none", pc |-> "none", born |-> 0, stop |-> 0, ev |-> "",
      timeoutCount |-> 0 ]

\* NewWhatsApp: no client, not ready, a fresh stop channel, nothing started
\* a goroutine that runs no operation; found is what its operation met (the
\* registry entry, or for Analyze a cached result that is not valid), pass
\* that a writer's Unlock has admitted it as a reader
IdleThread == [op |-> "idle", found |-> FALSE, at |-> 0, pass |-> FALSE]

NoWhatsApp ==
    [ client |-> FALSE, qrCode |-> << >>, ready |-> FALSE, mu |-> "free",
      stopChan |-> 0, closed |-> {}, refreshes |-> 0,
      monitors |-> [m \in Monitors |-> NoMonitor] ]

\* no call of CalculateStrength yet
NoCalculation == [ metrics |-> << >>, strength |-> "", returned |-> << >> ]

\* the scan_histories and analysis_results tables before any analysis
NoRows == [ history |-> 0, results |-> 0 ]

BlankTxn == [ user |-> NoUser, phone |-> NoID, status |-> "" ]

QRImage(code) == << "data:image/png;base64,", code >>

\* the whatsapp_sessions row of user u; its device_id is a function of the
\* user and its last_activity column is read by nothing, so only the status
\* column is kept
SessionRow(u, status) == << [ UserID |-> u, Status |-> status ] >>

\* the arguments a persistence goroutine was spawned with
SaveJob(u, status) == [ UserID |-> u, Status |-> status ]

SaveJobs == { SaveJob(u, status) : u \in Users, status \in Statuses }

Registered(i) ==
    /\ i \in 1..nSess
    /\ userSessions[sess[i].UserID] = i

\* ------------------------------------------------------------------ Init
Init ==
    /\ userSessions = [u \in Users |-> NoSession]
    /\ regMu = NoProc
    /\ nSess = 0
    /\ sess = [i \in SessIds |-> BlankSession]
    /\ sessionDB = [i \in SessIds |-> NoID]
    /\ diskID \in [Users -> {NoID} \cup Phones]
    /\ nClients = 0
    /\ clients = [c \in ClientIds |-> BlankClient]
    /\ storeFiles = [u \in Users |-> diskID[u] # NoID]
    /\ dbRows = [u \in Users |-> NoRow]
    /\ pendingSaves = {}
    /\ spawned = {}
    /\ txns = [t \in TxnIds |-> BlankTxn]
    /\ nTxns = 0
    /\ procs = [p \in Procs |-> IdleProc]
    /\ loggedOut = {}
    /\ quiet = [u \in Users |-> FALSE]
    /\ analysisDB = NoRows
    /\ calculated = NoCalculation
    /\ storeDriver = "sqlite"
    /\ wa = NoWhatsApp
    /\ threads = [t \in Threads |-> IdleThread]

\* the same start with room for three requests in flight
InitWorkers ==
    /\ userSessions = [u \in Users |-> NoSession]
    /\ regMu = NoProc
    /\ nSess = 0
    /\ sess = [i \in SessIds |-> BlankSession]
    /\ sessionDB = [i \in SessIds |-> NoID]
    /\ diskID \in [Users -> {NoID} \cup Phones]
    /\ nClients = 0
    /\ clients = [c \in ClientIds |-> BlankClient]
    /\ storeFiles = [u \in Users |-> diskID[u] # NoID]
    /\ dbRows = [u \in Users |-> NoRow]
    /\ pendingSaves = {}
    /\ spawned = {}
    /\ txns = [t \in TxnIds |-> BlankTxn]
    /\ nTxns = 0
    /\ procs = [p \in Workers |-> IdleProc]
    /\ loggedOut = {}
    /\ quiet = [u \in Users |-> FALSE]
    /\ analysisDB = NoRows
    /\ calculated = NoCalculation
    /\ storeDriver = "sqlite"
    /\ wa = NoWhatsApp
    /\ threads = [t \in Threads |-> IdleThread]

\* ------------------------------------------------------- request plumbing
\* where each operation continues once it holds the user's session
FirstStep(op) ==
    CASE op = "GetOrCreateSession" -> "done"
      [] op = "Connect" -> "connect"
      [] op = "SpawnedConnect" -> "connect"
      [] op = "GetQRCode" -> "qr_check"
      [] op = "HandleAnalyze" -> "ha_client"
      [] op = "HandleForceAnalysis" -> "hf_ready"
      [] op = "HandleLogout" -> "hl_client"
      [] OTHER -> "read"

\* a slot is free when it never ran a request or its last request has
\* returned; a new request takes the first free slot
Free(p) ==
    /\ procs[p].pc \in {"idle", "done"}
    /\ \A q \in DOMAIN procs : q < p => procs[q].pc \notin {"idle", "done"}

\* a request that has returned shows its operation, what it returned and the
\* return statement it left through, until the next request returns
Done(pr, ret, at) ==
    [ IdleProc EXCEPT !.pc = "done", !.op = pr.op, !.user = pr.user,
                      !.ret = ret, !.at = at ]

\* request p moves on to rec; a response replaces the one shown before
Step(p, rec) ==
    [ q \in DOMAIN procs |->
        IF q = p THEN rec
        ELSE IF rec.pc = "done" /\ procs[q].pc = "done" THEN IdleProc
        ELSE procs[q] ]

\* GetOrCreateSession hands session i to its caller
Got(pr, i) ==
    IF pr.k = "done"
    THEN [ Done(pr, "session", "registry") EXCEPT !.s = i ]
    ELSE [ pr EXCEPT !.s = i, !.pc = pr.k ]

\* GetOrCreateSession, fast path: the lookup under the shared lock
Lookup(pr) ==
    IF userSessions[pr.user] # NoSession
    THEN Got(pr, userSessions[pr.user])
    ELSE [ pr EXCEPT !.pc = "goc_create" ]

\* ------------------------------------------------------- session registry
\* operation op is called for user u: every manager operation but Logout, and
\* every handler, begins with GetOrCreateSession, whose fast path runs here
GetOrCreateSession(p, op, u) ==
    /\ Free(p)
    /\ regMu = NoProc
    /\ procs' = Step(p, Lookup([IdleProc EXCEPT !.op = op, !.user = u, !.k = FirstStep(op)]))
    /\ quiet' = [quiet EXCEPT ![u] = FALSE]
    /\ UNCHANGED << userSessions, regMu, nSess, sess, sessionDB, diskID, nClients,
                    clients, storeFiles, dbRows, pendingSaves, spawned, txns, nTxns,
                    loggedOut, analysisDB, calculated, storeDriver, wa, threads >>

\* the goroutine GetQRCode spawned runs Connect(userID)
SpawnedConnect(p, u) ==
    /\ Free(p)
    /\ regMu = NoProc
    /\ u \in spawned
    /\ spawned' = spawned \ {u}
    /\ procs' = Step(p, Lookup([IdleProc EXCEPT !.op = "SpawnedConnect", !.user = u,
                                   !.k = FirstStep("SpawnedConnect")]))
    /\ UNCHANGED << userSessions, regMu, nSess, sess, sessionDB, diskID, nClients,
                    clients, storeFiles, dbRows, pendingSaves, txns, nTxns,
                    loggedOut, quiet, analysisDB, calculated, storeDriver, wa, threads >>

\* ------------------------------------------------------ credential stores
\* initializeDatabase: with sqlite every user has a store file of their own;
\* with postgres every session opens the one database of WA_STORE_DSN
SharedStore == 0

\* the device table of the shared database: its rows in the order they were
\* stored, a device already in it keeping its row
PutDevice(table, id) ==
    IF \E k \in 1..Len(table) : table[k] = id THEN table ELSE Append(table, id)

DevicesWithout(table, id) == SelectSeq(table, LAMBDA d : d # id)

\* GetFirstDevice on the shared database: the first row, or a new device
FirstOf(table) == IF table = << >> THEN NoID ELSE table[1]

\* the device a store opened now would hand out
FirstDevice(u) ==
    IF storeDriver = "postgres" THEN FirstOf(diskID[SharedStore]) ELSE diskID[u]

\* createNewSession: the re-check under the exclusive lock
ExistsMutant(u) == FALSE
Exists(u) == userSessions[u] # NoSession

\* a creation that takes the session back when the row write fails
createNewSessionRollsBack(p, saved) ==
    LET pr == procs[p]
        u == pr.user
        i == nSess + 1
    IN
    /\ pr.pc = "goc_create"
    /\ regMu = NoProc
    /\ ~Exists(u)
    /\ nSess < MaxSessions
    /\ nSess' = i
    /\ sess' = [sess EXCEPT ![i] = NewSession(u)]
    /\ sessionDB' = [sessionDB EXCEPT ![i] = FirstDevice(u)]
    /\ storeFiles' = IF storeDriver = "postgres" THEN storeFiles
                     ELSE [storeFiles EXCEPT ![u] = TRUE]
    /\ userSessions' = IF saved THEN [userSessions EXCEPT ![u] = i] ELSE userSessions
    /\ dbRows' = IF saved THEN [dbRows EXCEPT ![u] = SessionRow(u, "disconnected")]
                          ELSE dbRows
    /\ procs' = Step(p, IF saved THEN Got(pr, i) ELSE Done(pr, "error", "save"))
    /\ UNCHANGED << regMu, diskID, nClients, clients, pendingSaves, spawned,
                    txns, nTxns, loggedOut, quiet, analysisDB, calculated, storeDriver, wa, threads >>

\* createNewSession: the whole body runs under the exclusive lock; saved is
\* the outcome of the row write that ends it
createNewSession(p, saved) ==
    LET pr == procs[p]
        u == pr.user
        i == nSess + 1
    IN
    /\ pr.pc = "goc_create"
    /\ regMu = NoProc
    /\ \/ /\ Exists(u)
          /\ procs' = Step(p, Got(pr, userSessions[u]))
          /\ UNCHANGED << userSessions, nSess, sess, sessionDB, storeFiles, dbRows >>
       \/ \* initializeDatabase fails: nothing is stored
          /\ ~Exists(u)
          /\ procs' = Step(p, Done(pr, "error", "initializeDatabase"))
          /\ UNCHANGED << userSessions, nSess, sess, sessionDB, storeFiles, dbRows >>
       \/ \* the session is constructed, initialized, stored and persisted
          /\ ~Exists(u)
          /\ nSess < MaxSessions
          /\ nSess' = i
          /\ sess' = [sess EXCEPT ![i] = NewSession(u)]
          /\ sessionDB' = [sessionDB EXCEPT ![i] = FirstDevice(u)]
          /\ storeFiles' = IF storeDriver = "postgres" THEN storeFiles
                           ELSE [storeFiles EXCEPT ![u] = TRUE]
          /\ userSessions' = [userSessions EXCEPT ![u] = i]
          /\ dbRows' = IF saved THEN [dbRows EXCEPT ![u] = SessionRow(u, "disconnected")]
                                ELSE dbRows
          /\ procs' = Step(p, Got(pr, i))
    /\ UNCHANGED << regMu, diskID, nClients, clients, pendingSaves, spawned,
                    txns, nTxns, loggedOut, quiet, analysisDB, calculated, storeDriver, wa, threads >>

\* createNewSession whose row write never returns: the session is
\* constructed, initialized and stored, and the call stays inside
\* saveOrUpdateSessionInDatabase with the exclusive lock
createNewSessionBlocked(p) ==
    LET pr == procs[p]
        u == pr.user
        i == nSess + 1
    IN
    /\ pr.pc = "goc_create"
    /\ regMu = NoProc
    /\ ~Exists(u)
    /\ nSess < MaxSessions
    /\ nSess' = i
    /\ sess' = [sess EXCEPT ![i] = NewSession(u)]
    /\ sessionDB' = [sessionDB EXCEPT ![i] = FirstDevice(u)]
    /\ storeFiles' = IF storeDriver = "postgres" THEN storeFiles
                     ELSE [storeFiles EXCEPT ![u] = TRUE]
    /\ userSessions' = [userSessions EXCEPT ![u] = i]
    /\ regMu' = p
    /\ procs' = Step(p, [pr EXCEPT !.pc = "goc_save", !.s = i])
    /\ UNCHANGED << dbRows, diskID, nClients, clients, pendingSaves, spawned,
                    txns, nTxns, loggedOut, quiet, analysisDB, calculated, storeDriver, wa, threads >>

\* ---------------------------------------------------------------- connect
\* connect: the three guards against connect storms
connectIsNoopMutant(r) ==
    \/ r.Status = "connected"
    \/ r.Status = "connecting"
    \/ r.SinceLastConnectAttempt < ConnectCooldown
connectIgnoresCooldown(r) ==
    \/ r.Status = "connected"
    \/ r.Status = "scanning" \/ r.Status = "connecting"
connectIsNoop(r) ==
    \/ r.Status = "connected"
    \/ r.Status = "scanning" \/ r.Status = "connecting"
    \/ r.SinceLastConnectAttempt < ConnectCooldown

\* connect, after the guards: the attempt is recorded
AttemptFields(r) ==
    [ r EXCEPT !.SinceLastConnectAttempt = 0, !.Status = "connecting",
               !.SinceLastActivity = 0 ]

\* a restore that also runs the analysis
RestoredAndAnalyzed(r, c) ==
    [ r EXCEPT !.Client = c, !.Status = "connected", !.Ready = TRUE,
               !.QRCode = EmptyString, !.SinceLastActivity = 0,
               !.AnalysisCache = << [ TotalChats |-> 1, TotalContacts |-> 1,
                                      AccountAgeDays |-> 90, TotalGroups |-> 0,
                                      TotalChatWithContact |-> 0,
                                      SensitiveContentCount |-> 0,
                                      TotalUnsavedChats |-> 0,
                                      UnknownNumberChats |-> 0 ] >> ]

\* a restore that leaves the status at connecting
RestoredKeepsStatus(r, c) ==
    [ r EXCEPT !.Client = c, !.Ready = TRUE,
               !.QRCode = EmptyString, !.SinceLastActivity = 0 ]

\* connect: a stored credential was restored
RestoredFields(r, c) ==
    [ r EXCEPT !.Client = c, !.Status = "connected", !.Ready = TRUE,
               !.QRCode = EmptyString, !.SinceLastActivity = 0 ]

\* connect: the pairing flow was started
PairingFields(r, c) ==
    [ r EXCEPT !.Client = c, !.Status = "scanning", !.SinceLastActivity = 0 ]

\* connect takes the session lock, runs the guards and records the attempt
connect(p) ==
    LET pr == procs[p]
        s == pr.s
        r == sess[s]
    IN
    /\ pr.pc = "connect"
    /\ r.mu = NoProc
    /\ IF connectIsNoop(r)
       THEN /\ procs' = Step(p, Done(pr, "nil", "guard"))
            /\ UNCHANGED << sess, pendingSaves >>
       ELSE /\ nClients < MaxClients
            /\ sess' = [sess EXCEPT ![s] = [AttemptFields(r) EXCEPT !.mu = p]]
            /\ pendingSaves' = pendingSaves \cup {SaveJob(r.UserID, "connecting")}
            /\ procs' = Step(p, [pr EXCEPT !.pc = "connect_io"])
    /\ UNCHANGED << userSessions, regMu, nSess, sessionDB, diskID, nClients, clients,
                    storeFiles, dbRows, spawned, txns, nTxns, loggedOut, quiet, analysisDB, calculated, storeDriver, wa, threads >>

\* connect returns an error: the lock is released, nothing else is written
connectFails(p, at) ==
    /\ sess' = [sess EXCEPT ![procs[p].s].mu = NoProc]
    /\ procs' = Step(p, Done(procs[p], "error", at))
    /\ UNCHANGED << nClients, clients, pendingSaves >>

\* connect stores the new client c in the session and returns nil
connectStores(p, fields, chan, watch, at) ==
    LET s == procs[p].s
        c == nClients + 1
    IN
    /\ nClients < MaxClients
    /\ nClients' = c
    /\ clients' = [clients EXCEPT ![c] =
           [ sess |-> s, connected |-> TRUE, storeID |-> sessionDB[s],
             qrChan |-> chan, watcher |-> watch, waited |-> 0 ]]
    /\ sess' = [sess EXCEPT ![s] = [fields EXCEPT !.mu = NoProc]]
    /\ pendingSaves' = pendingSaves \cup {SaveJob(fields.UserID, fields.Status)}
    /\ procs' = Step(p, Done(procs[p], "nil", at))

\* connect, second half: the credential-store read and the client's Connect
connectIO(p) ==
    LET pr == procs[p]
        s == pr.s
        r == sess[s]
        c == nClients + 1
    IN
    /\ pr.pc = "connect_io"
    /\ \/ \* GetFirstDevice fails
          connectFails(p, "GetFirstDevice")
       \/ \* a stored credential exists and the restore connects
          /\ sessionDB[s] # NoID
          /\ connectStores(p, RestoredFields(r, c), "nil", "none", "restored")
       \/ \* the restore fails, and so does the second Connect
          /\ sessionDB[s] # NoID
          /\ connectFails(p, "Connect")
       \/ \* the restore fails, the second Connect succeeds; GetQRChannel
          \* gave no channel because the device store still holds an identity
          /\ sessionDB[s] # NoID
          /\ connectStores(p, PairingFields(r, c), "nil", "live", "pairing")
       \/ \* no stored credential, Connect fails
          /\ sessionDB[s] = NoID
          /\ connectFails(p, "Connect")
       \/ \* no stored credential, Connect succeeds: pairing starts
          /\ sessionDB[s] = NoID
          /\ connectStores(p, PairingFields(r, c), "open", "live", "pairing")
    /\ UNCHANGED << userSessions, regMu, nSess, sessionDB, diskID,
                    storeFiles, dbRows, spawned, txns, nTxns, loggedOut, quiet, analysisDB, calculated, storeDriver, wa, threads >>

\* ------------------------------------------------------- pairing watcher
\* waitForQR: a code event was rendered
CodeFields(r, code) == [ r EXCEPT !.QRCode = QRImage(code) ]

\* waitForQR: the success event
SuccessFieldsMutant(r) ==
    [ r EXCEPT !.Status = "connected", !.Ready = TRUE, !.SinceLastActivity = 0 ]
SuccessFields(r) ==
    [ r EXCEPT !.Status = "connected", !.Ready = TRUE,
               !.QRCode = EmptyString, !.SinceLastActivity = 0 ]

\* waitForQR: the two-minute wait ran out
TimeoutFields(r) == [ r EXCEPT !.Status = "disconnected", !.QRCode = EmptyString ]

Watching(c) == c \in 1..nClients /\ clients[c].watcher = "live"

\* the credential store of session i still writes to the files on disk
Attached(i) == Registered(i) /\ storeFiles[sess[i].UserID]

\* waitForQR receives a code event; the code renders or qrcode.Encode fails
waitForQRCode(c, code, rendered) ==
    LET s == clients[c].sess IN
    /\ Watching(c)
    /\ clients[c].qrChan = "open"
    /\ clients' = [clients EXCEPT ![c].waited = 0]
    /\ IF rendered
       THEN /\ sess[s].mu = NoProc
            /\ sess' = [sess EXCEPT ![s] = CodeFields(@, code)]
       ELSE UNCHANGED sess
    /\ UNCHANGED << userSessions, regMu, nSess, sessionDB, diskID, nClients,
                    storeFiles, dbRows, pendingSaves, spawned, txns, nTxns, procs,
                    loggedOut, quiet, analysisDB, calculated, storeDriver, wa, threads >>

\* waitForQR receives the success event: the client library has bound the
\* identity and stored it, and closes the channel
waitForQRSuccess(c, phone) ==
    LET s == clients[c].sess IN
    /\ Watching(c)
    /\ clients[c].qrChan = "open"
    /\ clients[c].connected
    /\ sess[s].mu = NoProc
    /\ sess' = [sess EXCEPT ![s] = SuccessFields(@)]
    /\ clients' = [clients EXCEPT ![c].storeID = phone, ![c].qrChan = "closed",
                                  ![c].watcher = "persist_success", ![c].waited = 0]
    /\ IF storeDriver = "postgres"
       THEN LET table == PutDevice(diskID[SharedStore], phone) IN
            /\ diskID' = [diskID EXCEPT ![SharedStore] = table]
            /\ sessionDB' = [i \in SessIds |-> FirstOf(table)]
       ELSE /\ sessionDB' = [sessionDB EXCEPT ![s] = phone]
            /\ diskID' = IF Attached(s) THEN [diskID EXCEPT ![sess[s].UserID] = phone]
                                        ELSE diskID
    /\ UNCHANGED << userSessions, regMu, nSess, nClients, storeFiles, dbRows,
                    pendingSaves, spawned, txns, nTxns, procs, loggedOut, quiet, analysisDB, calculated, storeDriver, wa, threads >>

\* waitForQR receives any other event (timeout, error, ...): it is ignored;
\* the client library closes the channel after such an event, and from a
\* closed channel every iteration of the loop receives at once, so that
\* the wait of an iteration stays at zero
waitForQROther(c) ==
    /\ Watching(c)
    /\ clients[c].qrChan = "open"
    /\ clients' = [clients EXCEPT ![c].qrChan = "closed", ![c].waited = 0]
    /\ UNCHANGED << userSessions, regMu, nSess, sess, sessionDB, diskID, nClients,
                    storeFiles, dbRows, pendingSaves, spawned, txns, nTxns, procs,
                    loggedOut, quiet, analysisDB, calculated, storeDriver, wa, threads >>

TimerDue(c) ==
    /\ Watching(c)
    /\ clients[c].qrChan # "closed"
    /\ clients[c].waited >= QRTimeout

\* waitForQR: nothing arrived for the whole wait of this loop iteration
waitForQRTimeout(c) ==
    LET s == clients[c].sess IN
    /\ TimerDue(c)
    /\ sess[s].mu = NoProc
    /\ sess' = [sess EXCEPT ![s] = TimeoutFields(@)]
    /\ clients' = [clients EXCEPT ![c].watcher = "persist_timeout", ![c].waited = 0]
    /\ UNCHANGED << userSessions, regMu, nSess, sessionDB, diskID, nClients,
                    storeFiles, dbRows, pendingSaves, spawned, txns, nTxns, procs,
                    loggedOut, quiet, analysisDB, calculated, storeDriver, wa, threads >>

\* waitForQR persists the status it reads back from the session, and exits
waitForQRPersist(c, ok) ==
    LET s == clients[c].sess
        r == sess[s]
        w == clients[c].watcher
    IN
    /\ c \in 1..nClients
    /\ w \in {"persist_success", "persist_timeout"}
    /\ clients' = [clients EXCEPT ![c].watcher =
                      IF w = "persist_success" THEN "done_success" ELSE "done_timeout"]
    /\ dbRows' = IF ok THEN [dbRows EXCEPT ![r.UserID] = SessionRow(r.UserID, r.Status)]
                       ELSE dbRows
    /\ UNCHANGED << userSessions, regMu, nSess, sess, sessionDB, diskID, nClients,
                    storeFiles, pendingSaves, spawned, txns, nTxns, procs,
                    loggedOut, quiet, analysisDB, calculated, storeDriver, wa, threads >>

\* the connection of client c drops without a logout call: the transport is
\* lost, or the phone unlinks the device and the library forgets the identity
\* and deletes it from the credential store; IsConnected and Store.ID show it
ConnectionLost(c, unlinked) ==
    LET s == clients[c].sess IN
    /\ c \in 1..nClients
    /\ clients[c].connected
    /\ clients' = [clients EXCEPT ![c].connected = FALSE,
                                  ![c].storeID = IF unlinked THEN NoID ELSE @]
    /\ IF unlinked /\ clients[c].storeID # NoID
       THEN IF storeDriver = "postgres"
            THEN LET table == DevicesWithout(diskID[SharedStore], clients[c].storeID) IN
                 /\ diskID' = [diskID EXCEPT ![SharedStore] = table]
                 /\ sessionDB' = [i \in SessIds |-> FirstOf(table)]
            ELSE /\ sessionDB' = [sessionDB EXCEPT ![s] = NoID]
                 /\ diskID' = IF Attached(s) THEN [diskID EXCEPT ![sess[s].UserID] = NoID]
                                             ELSE diskID
       ELSE UNCHANGED << sessionDB, diskID >>
    /\ UNCHANGED << userSessions, regMu, nSess, sess, nClients, storeFiles, dbRows,
                    pendingSaves, spawned, txns, nTxns, procs, loggedOut, quiet,
                    analysisDB, calculated, storeDriver, wa, threads >>

\* ------------------------------------------------------------ persistence
\* a persistence goroutine of connect runs saveOrUpdateSessionInDatabase
saveOrUpdateSessionInDatabase(job, ok) ==
    /\ job \in pendingSaves
    /\ pendingSaves' = pendingSaves \ {job}
    /\ dbRows' = IF ok THEN [dbRows EXCEPT ![job.UserID] =
                               SessionRow(job.UserID, job.Status)]
                       ELSE dbRows
    /\ UNCHANGED << userSessions, regMu, nSess, sess, sessionDB, diskID, nClients,
                    clients, storeFiles, spawned, txns, nTxns, procs, loggedOut, quiet, analysisDB, calculated, storeDriver, wa, threads >>

\* ------------------------------------------------------------------ clock
\* an age after one more tick
Older(age, cap) == IF age < cap THEN age + 1 ELSE cap

\* LastActivity is compared with nothing in the code: the model tells a
\* stamp just taken from an older one, and counts on to MaxAge, past the
\* pairing wait, for a session that is scanning
ActivityCap(r) == IF r.Status = "scanning" THEN MaxAge ELSE 1

\* something reads the clock: a pairing watcher waits or a cool-down runs
Timed ==
    \/ \E c \in ClientIds : Watching(c)
    \/ \E i \in 1..nSess : sess[i].SinceLastConnectAttempt < ConnectCooldown

SessionsOlder ==
    [ i \in SessIds |->
        IF i > nSess THEN sess[i]
        ELSE [ sess[i] EXCEPT
                 !.SinceLastConnectAttempt = Older(@, ConnectCooldown),
                 !.SinceLastActivity = Older(@, ActivityCap(sess[i])) ] ]

ClientsOlder ==
    [ c \in ClientIds |->
        IF Watching(c) /\ clients[c].qrChan # "closed"
        THEN [ clients[c] EXCEPT !.waited = Older(@, QRTimeout) ]
        ELSE clients[c] ]

\* time passes; a timer that is due fires before the clock moves on
Tick ==
    /\ Timed
    /\ \A c \in ClientIds : ~TimerDue(c)
    /\ sess' = SessionsOlder
    /\ clients' = ClientsOlder
    /\ << sess', clients' >> # << sess, clients >>
    /\ UNCHANGED << userSessions, regMu, nSess, sessionDB, diskID, nClients,
                    storeFiles, dbRows, pendingSaves, spawned, txns, nTxns, procs,
                    loggedOut, quiet, analysisDB, calculated, storeDriver, wa, threads >>

\* ----------------------------------------------------------------- Logout
\* Logout: the in-memory fields of the removed session are cleared
LogoutFields(r) ==
    [ r EXCEPT !.Status = "disconnected", !.Ready = FALSE,
               !.QRCode = EmptyString, !.AnalysisCache = EmptyCache ]

\* Logout(u) takes the registry lock; for a known user it logs the client it
\* finds out, disconnects it and removes the credential files (pr is the
\* request that makes the call)
LogoutAs(p, pr, loggedOutOk) ==
    LET u == pr.user
        s == userSessions[u]
        c == sess[s].Client
        \* the client's Logout removes its device from the store
        deletes == c # NilClient /\ loggedOutOk /\ clients[c].storeID # NoID
    IN
    /\ regMu = NoProc
    /\ IF s = NoSession
       THEN /\ dbRows' = IF dbRows[u] = NoRow THEN dbRows
                          ELSE [dbRows EXCEPT ![u] = SessionRow(u, "disconnected")]
            /\ procs' = Step(p, Done(pr, "nil", "unknown"))
            /\ quiet' = [quiet EXCEPT ![u] = TRUE]
            /\ UNCHANGED << regMu, clients, sessionDB, diskID, storeFiles >>
       ELSE /\ regMu' = p
            /\ procs' = Step(p, [pr EXCEPT !.pc = "logout_clear", !.s = s])
            /\ clients' = IF c = NilClient THEN clients
                          ELSE IF deletes
                          THEN [clients EXCEPT ![c].connected = FALSE,
                                               ![c].storeID = NoID]
                          ELSE [clients EXCEPT ![c].connected = FALSE]
            /\ IF storeDriver = "postgres"
               THEN LET table == DevicesWithout(diskID[SharedStore],
                                                clients[c].storeID) IN
                    /\ diskID' = IF deletes THEN [diskID EXCEPT ![SharedStore] = table]
                                            ELSE diskID
                    /\ sessionDB' = IF deletes THEN [i \in SessIds |-> FirstOf(table)]
                                               ELSE sessionDB
                    /\ UNCHANGED storeFiles
               ELSE /\ sessionDB' = IF deletes THEN [sessionDB EXCEPT ![s] = NoID]
                                               ELSE sessionDB
                    /\ diskID' = [diskID EXCEPT ![u] = NoID]
                    /\ storeFiles' = [storeFiles EXCEPT ![u] = FALSE]
            /\ quiet' = [quiet EXCEPT ![u] = FALSE]
            /\ UNCHANGED dbRows
    /\ UNCHANGED << userSessions, nSess, sess, nClients, pendingSaves, spawned,
                    txns, nTxns, loggedOut, analysisDB, calculated, storeDriver, wa, threads >>

\* the manager's Logout called on its own
Logout(p, u, loggedOutOk) ==
    /\ Free(p)
    /\ LogoutAs(p, [IdleProc EXCEPT !.op = "Logout", !.user = u], loggedOutOk)

\* Logout that forgets to delete the registry entry
LogoutKeepsEntry(p, deleted) ==
    LET pr == procs[p]
        u == pr.user
        s == pr.s
    IN
    /\ pr.pc = "logout_clear"
    /\ sess' = [sess EXCEPT ![s] = LogoutFields(@)]
    /\ dbRows' = IF deleted THEN [dbRows EXCEPT ![u] = NoRow] ELSE dbRows
    /\ regMu' = NoProc
    /\ quiet' = [quiet EXCEPT ![u] = TRUE]
    /\ procs' = Step(p, [Done(pr, "nil", "wiped") EXCEPT !.s = s])
    /\ UNCHANGED << userSessions, loggedOut, nSess, sessionDB, diskID, nClients,
                    clients, storeFiles, pendingSaves, spawned, txns, nTxns, analysisDB, calculated, storeDriver, wa, threads >>

\* Logout, second half: the fields are cleared, the entry and the row
\* deleted (deleted is the outcome of the row delete), and Logout returns
LogoutClear(p, deleted) ==
    LET pr == procs[p]
        u == pr.user
        s == pr.s
    IN
    /\ pr.pc = "logout_clear"
    /\ sess' = [sess EXCEPT ![s] = LogoutFields(@)]
    /\ userSessions' = [userSessions EXCEPT ![u] = NoSession]
    /\ loggedOut' = loggedOut \cup {s}
    /\ dbRows' = IF deleted THEN [dbRows EXCEPT ![u] = NoRow] ELSE dbRows
    /\ regMu' = NoProc
    /\ quiet' = [quiet EXCEPT ![u] = TRUE]
    /\ procs' = Step(p, [Done(pr, "nil", "wiped") EXCEPT !.s = s])
    /\ UNCHANGED << nSess, sessionDB, diskID, nClients, clients, storeFiles,
                    pendingSaves, spawned, txns, nTxns, analysisDB, calculated, storeDriver, wa, threads >>

\* ---------------------------------------------------------- read methods
BoolStr(b) == IF b THEN "true" ELSE "false"

\* GetStatus, IsReady, GetClient: one field read under the session's shared lock
ReadField(p) ==
    LET pr == procs[p]
        r == sess[pr.s]
    IN
    /\ pr.pc = "read"
    /\ r.mu = NoProc
    /\ procs' = Step(p, Done(pr, CASE pr.op = "GetStatus" -> r.Status
                      [] pr.op = "IsReady" -> BoolStr(r.Ready)
                      [] OTHER -> BoolStr(r.Client # NilClient), "read"))
    /\ UNCHANGED << userSessions, regMu, nSess, sess, sessionDB, diskID, nClients,
                    clients, storeFiles, dbRows, pendingSaves, spawned, txns, nTxns,
                    loggedOut, quiet, analysisDB, calculated, storeDriver, wa, threads >>

\* GetQRCode: when to fire the connect that generates a code
NeedsConnect(r) ==
    /\ r.QRCode = EmptyString
    /\ r.Status # "connected" /\ r.Status # "scanning" /\ r.Status # "connecting"

\* GetQRCode, first read: decide whether to spawn Connect
GetQRCodeCheck(p) ==
    LET pr == procs[p]
        r == sess[pr.s]
    IN
    /\ pr.pc = "qr_check"
    /\ r.mu = NoProc
    /\ spawned' = IF NeedsConnect(r) THEN spawned \cup {pr.user} ELSE spawned
    /\ procs' = Step(p, [pr EXCEPT !.pc = "qr_read"])
    /\ UNCHANGED << userSessions, regMu, nSess, sess, sessionDB, diskID, nClients,
                    clients, storeFiles, dbRows, pendingSaves, txns, nTxns,
                    loggedOut, quiet, analysisDB, calculated, storeDriver, wa, threads >>

\* GetQRCode, second read: the code is returned
GetQRCodeRead(p) ==
    LET pr == procs[p]
        r == sess[pr.s]
    IN
    /\ pr.pc = "qr_read"
    /\ r.mu = NoProc
    /\ procs' = Step(p, Done(pr, IF r.QRCode = EmptyString THEN "noqr" ELSE "qr", "read"))
    /\ UNCHANGED << userSessions, regMu, nSess, sess, sessionDB, diskID, nClients,
                    clients, storeFiles, dbRows, pendingSaves, spawned, txns, nTxns,
                    loggedOut, quiet, analysisDB, calculated, storeDriver, wa, threads >>

\* --------------------------------------------------------------- payments
\* strings.ToLower on the statuses the payment provider sends
ToLower(status) ==
    CASE status = "PAID" -> "paid"
      [] status = "SETTLED" -> "settled"
      [] status = "EXPIRED" -> "expired"
      [] status = "PENDING" -> "pending"
      [] status = "REFUNDED" -> "refunded"
      [] status = "FAILED" -> "failed"
      [] OTHER -> status

\* UpdateTransactionStatus: the status stored for a status received
NormalizeStatus(status) ==
    LET normalized == ToLower(status) IN
    CASE normalized \in {"paid", "settled", "success", "successful"} -> "paid"
      [] normalized = "expired" -> "expired"
      [] normalized \in {"failed", "voided", "canceled", "cancelled"} -> "failed"
      [] normalized \in {"pending", "unpaid", "open"} -> "pending"
      [] OTHER -> normalized

ReceivedStatuses == {"PAID", "settled", "EXPIRED", "FAILED", "REFUNDED"}

\* CreatePayment: a pending transaction of user u for a phone number
CreatePayment(u, phone) ==
    /\ nTxns < MaxTxns
    /\ nTxns' = nTxns + 1
    /\ txns' = [txns EXCEPT ![nTxns + 1] =
                   [ user |-> u, phone |-> phone, status |-> "pending" ]]
    /\ UNCHANGED << userSessions, regMu, nSess, sess, sessionDB, diskID, nClients,
                    clients, storeFiles, dbRows, pendingSaves, spawned, procs,
                    loggedOut, quiet, analysisDB, calculated, storeDriver, wa, threads >>

\* UpdateTransactionStatus: the provider's callback or a reconciliation
UpdateTransactionStatus(t, status) ==
    /\ t \in 1..nTxns
    /\ txns[t].status # NormalizeStatus(status)
    /\ txns' = [txns EXCEPT ![t].status = NormalizeStatus(status)]
    /\ UNCHANGED << userSessions, regMu, nSess, sess, sessionDB, diskID, nClients,
                    clients, storeFiles, dbRows, pendingSaves, spawned, nTxns, procs,
                    loggedOut, quiet, analysisDB, calculated, storeDriver, wa, threads >>

\* ReconcileTransactionStatusByExternalID: a transaction that is still
\* pending takes the status of the provider's invoice; when it is not
\* pending, or the invoice cannot be fetched, nothing is written
ReconcileTransactionStatusByExternalID(t, fetched, status) ==
    /\ t \in 1..nTxns
    /\ txns[t].status = "pending"
    /\ fetched
    /\ UpdateTransactionStatus(t, status)

\* the check that looks at the user and the status only
PaidForAnyPhone(u, phone) ==
    \E t \in 1..nTxns : txns[t].user = u /\ txns[t].status = "paid"

CheckIfUserPaidForPhone(u, phone) ==
    \E t \in 1..nTxns :
        txns[t].user = u /\ txns[t].phone = phone /\ txns[t].status = "paid"

\* the check that looks at the user only
AnyTransaction(u) == \E t \in 1..nTxns : txns[t].user = u

CheckIfUserHasAnyPaidTransaction(u) ==
    \E t \in 1..nTxns : txns[t].user = u /\ txns[t].status = "paid"

\* a caller asks CheckIfUserPaidForPhone and gets its answer
CheckPaid(p, u, phone) ==
    /\ Free(p)
    /\ procs' = Step(p, [ Done([IdleProc EXCEPT !.op = "CheckIfUserPaidForPhone",
                                                !.user = u],
                               BoolStr(CheckIfUserPaidForPhone(u, phone)), "count")
                          EXCEPT !.phone = phone ])
    /\ UNCHANGED << userSessions, regMu, nSess, sess, sessionDB, diskID, nClients,
                    clients, storeFiles, dbRows, pendingSaves, spawned, txns, nTxns,
                    loggedOut, quiet, analysisDB, calculated, storeDriver, wa, threads >>

\* --------------------------------------------------------------- analysis
\* estimateAccountAge from the contact list (none of the contacts is a
\* group); total > 0
estimateAccountAge(total, saved) ==
    LET baseAge == IF total >= 1000 THEN 1095
                   ELSE IF total >= 500 THEN 730
                   ELSE IF total >= 200 THEN 365
                   ELSE IF total >= 100 THEN 180
                   ELSE IF total >= 50 THEN 90
                   ELSE 30
        ratio == IF 10 * saved > 8 * total THEN 60
                 ELSE IF 10 * saved > 6 * total THEN 30
                 ELSE 0
        growth == IF saved = 0 THEN 0
                  ELSE IF total > 730 THEN 120
                  ELSE IF total > 365 THEN 60
                  ELSE IF 2 * total > 365 THEN 30
                  ELSE 0
        age == baseAge + ratio + growth
    IN IF age < 30 THEN 30 ELSE IF age > 1825 THEN 1825 ELSE age

\* the larger of two counts
Larger(a, b) == IF a > b THEN a ELSE b

\* the largest of the three sources
calculateTotalGroupsMax(contactGroups, joined, storedGroups) ==
    Larger(contactGroups, Larger(joined, storedGroups))

\* what calculateTotalGroups takes from the client: the length of the list
\* GetJoinedGroups answers; nothing without a client or on an error
JoinedGroups(hasClient, queryOk, n) == IF hasClient /\ queryOk THEN n ELSE 0

\* calculateTotalGroups: the count from the client, raised to the number of
\* locally stored groups when that is larger, and only when both are zero
\* the number of group identifiers among the contacts
calculateTotalGroups(contactGroups, joined, storedGroups) ==
    LET totalGroups == IF storedGroups > 0 /\ storedGroups > joined
                       THEN storedGroups ELSE joined
    IN IF totalGroups = 0 THEN contactGroups ELSE totalGroups

\* the result Analyze builds from the contacts of the store, saved of them
\* with a name and unsaved without: the eight metrics
AnalysisResult(saved, unsaved, groups) ==
    << [ TotalChats |-> saved + (saved * 3) \div 10,
         TotalContacts |-> saved,
         AccountAgeDays |-> estimateAccountAge(saved + unsaved, saved),
         TotalGroups |-> calculateTotalGroups(0, groups, 0),
         TotalChatWithContact |-> (saved * 8) \div 10,
         SensitiveContentCount |-> saved \div 10,
         TotalUnsavedChats |-> unsaved,
         UnknownNumberChats |-> unsaved ] >>

\* isValidCache: the cached result has data and the session has a paired client
isValidCache(r, cached) ==
    /\ ~(cached[1].TotalContacts = 0 /\ cached[1].TotalChats = 0)
    /\ r.Client # NilClient
    /\ clients[r.Client].storeID # NoID

\* GetCachedAnalysis: a hit needs a registry entry holding a result with data
GetCachedAnalysis(u) ==
    LET s == userSessions[u] IN
    IF s = NoSession \/ sess[s].AnalysisCache = EmptyCache
    THEN EmptyCache
    ELSE IF sess[s].AnalysisCache[1].TotalContacts > 0
            \/ sess[s].AnalysisCache[1].TotalChats > 0
         THEN sess[s].AnalysisCache
         ELSE EmptyCache

\* Analyze, first half: the client and readiness checks and the cache
Analyze(p) ==
    LET pr == procs[p]
        s == pr.s
        r == sess[s]
    IN
    /\ pr.pc = "analyze"
    /\ IF r.Client = NilClient
       THEN /\ procs' = Step(p, Done(pr, "500", "not connected"))
            /\ UNCHANGED sess
       ELSE IF ~r.Ready
       THEN /\ procs' = Step(p, Done(pr, "500", "not logged in"))
            /\ UNCHANGED sess
       ELSE IF r.AnalysisCache # EmptyCache /\ isValidCache(r, r.AnalysisCache)
       THEN /\ procs' = Step(p, Done(pr, "result", "session cache"))
            /\ UNCHANGED sess
       ELSE /\ procs' = Step(p, [pr EXCEPT !.pc = "analyze_io", !.c = r.Client])
            /\ sess' = [sess EXCEPT ![s].AnalysisCache = EmptyCache]
    /\ UNCHANGED << userSessions, regMu, nSess, sessionDB, diskID, nClients,
                    clients, storeFiles, dbRows, pendingSaves, spawned, txns, nTxns,
                    loggedOut, quiet, analysisDB, calculated, storeDriver, wa, threads >>

\* a contact fetch whose failure still leaves a result in the cache
AnalyzeCachesOnError(p, fetched, saved, unsaved) ==
    LET pr == procs[p] IN
    /\ pr.pc = "analyze_io"
    /\ sess' = [sess EXCEPT ![pr.s].AnalysisCache = AnalysisResult(saved, unsaved, 0)]
    /\ procs' = Step(p, Done(pr, "500", "contacts"))
    /\ UNCHANGED << userSessions, regMu, nSess, sessionDB, diskID, nClients,
                    clients, storeFiles, dbRows, pendingSaves, spawned, txns, nTxns,
                    loggedOut, quiet, analysisDB, calculated, storeDriver, wa, threads >>

\* Analyze, the contact fetch, made under a five-second timeout: it fails
\* or times out, or it finds saved (named) and unsaved (unnamed) contacts
AnalyzeIO(p, fetched, saved, unsaved) ==
    LET pr == procs[p] IN
    /\ pr.pc = "analyze_io"
    /\ IF fetched /\ saved + unsaved > 0
       THEN procs' = Step(p, [pr EXCEPT !.pc = "analyze_groups",
                                        !.saved = saved, !.unsaved = unsaved])
       ELSE procs' = Step(p, Done(pr, "500", "contacts"))
    /\ UNCHANGED << userSessions, regMu, nSess, sess, sessionDB, diskID, nClients,
                    clients, storeFiles, dbRows, pendingSaves, spawned, txns, nTxns,
                    loggedOut, quiet, analysisDB, calculated, storeDriver, wa, threads >>

\* the contact list in the store of the account paired as id: every account
\* has its own, here told apart by the number of unnamed contacts
Saved(id) == 1
Unsaved(id) == IF id = NoID THEN 0 ELSE id - 1

\* Analyze, the contact fetch, answered from the store of the account the
\* client is paired with (a client without a device has nothing to fetch)
AnalyzeAccount(p) ==
    /\ procs[p].pc = "analyze_io"
    /\ LET id == clients[procs[p].c].storeID
       IN AnalyzeIO(p, id # NoID, Saved(id), Unsaved(id))

\* Analyze, calculateTotalGroups: the client answers the joined-groups
\* query, which is sent without a timeout (an error counts as no groups)
AnalyzeGroups(p, groups) ==
    LET pr == procs[p] IN
    /\ pr.pc = "analyze_groups"
    /\ procs' = Step(p, [pr EXCEPT !.pc = "analyze_age", !.groups = groups])
    /\ UNCHANGED << userSessions, regMu, nSess, sess, sessionDB, diskID, nClients,
                    clients, storeFiles, dbRows, pendingSaves, spawned, txns, nTxns,
                    loggedOut, quiet, analysisDB, calculated, storeDriver, wa, threads >>

\* Analyze, estimateAccountAge and the rest: the contact fetch of the age
\* estimate, made without a timeout, answers; the eight metrics, the cache
\* write, the scan-history row and the analysis-result row (each write can
\* fail, and fails once its table holds MaxRows rows)
AnalyzeAge(p, historyOk, resultOk) ==
    LET pr == procs[p]
        s == pr.s
    IN
    /\ pr.pc = "analyze_age"
    /\ historyOk => analysisDB.history < MaxRows
    /\ resultOk => analysisDB.results < MaxRows
    /\ sess' = [sess EXCEPT ![s].AnalysisCache =
                    AnalysisResult(pr.saved, pr.unsaved, pr.groups)]
    /\ analysisDB' =
          [ history |-> analysisDB.history + (IF historyOk THEN 1 ELSE 0),
            results |-> analysisDB.results + (IF resultOk THEN 1 ELSE 0) ]
    /\ procs' = Step(p, Done(pr, "result", "analyzed"))
    /\ UNCHANGED << userSessions, regMu, nSess, sessionDB, diskID, nClients,
                    clients, storeFiles, dbRows, pendingSaves, spawned, txns, nTxns,
                    loggedOut, quiet, calculated, storeDriver, wa, threads >>

\* Analyze whose scan-history or result write never returns: the result is
\* cached, and the call stays inside the write
AnalyzeAgeBlocked(p) ==
    LET pr == procs[p]
        s == pr.s
    IN
    /\ pr.pc = "analyze_age"
    /\ sess' = [sess EXCEPT ![s].AnalysisCache =
                    AnalysisResult(pr.saved, pr.unsaved, pr.groups)]
    /\ procs' = Step(p, [pr EXCEPT !.pc = "analyze_save"])
    /\ UNCHANGED << userSessions, regMu, nSess, sessionDB, diskID, nClients,
                    clients, storeFiles, dbRows, pendingSaves, spawned, txns, nTxns,
                    loggedOut, quiet, analysisDB, calculated, storeDriver, wa, threads >>


\* ---------------------------------------------------------------- strength
\* the eight per-metric evaluations: 3 for Baik, 2 for Cukup, 1 for Buruk
evaluateTotalChats(value) == IF value >= 100 THEN 3 ELSE IF value >= 40 THEN 2 ELSE 1
evaluateTotalContacts(value) == IF value >= 200 THEN 3 ELSE IF value >= 100 THEN 2 ELSE 1
evaluateAccountAge(value) == IF value >= 365 THEN 3 ELSE IF value >= 90 THEN 2 ELSE 1
evaluateTotalGroups(value) == IF value >= 80 THEN 3 ELSE IF value >= 30 THEN 2 ELSE 1
evaluateChatWithContacts(value) == IF value >= 100 THEN 3 ELSE IF value >= 30 THEN 2 ELSE 1
evaluateSensitiveRising(value) == IF value >= 10 THEN 3 ELSE IF value >= 5 THEN 2 ELSE 1
evaluateSensitiveContent(value) == IF value <= 5 THEN 3 ELSE IF value <= 10 THEN 2 ELSE 1
evaluateUnsavedChats(value) == IF value <= 100 THEN 3 ELSE IF value <= 500 THEN 2 ELSE 1
evaluateUnknownChats(value) == IF value <= 15 THEN 3 ELSE IF value <= 30 THEN 2 ELSE 1

\* CalculateStrength: the scores of the eight metrics, in the order of the call
evaluations(m) ==
    << evaluateTotalChats(m[1]), evaluateTotalContacts(m[2]),
       evaluateAccountAge(m[3]), evaluateTotalGroups(m[4]),
       evaluateChatWithContacts(m[5]), evaluateSensitiveContent(m[6]),
       evaluateUnsavedChats(m[7]), evaluateUnknownChats(m[8]) >>

RECURSIVE SumTo(_, _)
SumTo(scores, n) == IF n = 0 THEN 0 ELSE SumTo(scores, n - 1) + scores[n]

totalScore(m) == SumTo(evaluations(m), Len(evaluations(m)))

\* an average taken in whole numbers
averageScoreTruncated(total) == (total \div 8) * 1000

\* float64(totalScore) / 8.0, in thousandths: eighths are exact in binary
\* floating point, and so are they in thousandths
averageScore(total) == (total * 1000) \div 8

\* the status an evaluation carries with its score
StatusOf(score) == IF score = 3 THEN "Baik" ELSE IF score = 2 THEN "Cukup" ELSE "Buruk"

\* the parameter names of the eight evaluations
Parameters ==
    << "Total Chats", "Total Kontak", "Umur Akun", "Total Grup",
       "Chat dengan Kontak", "Sensitivitas Chat", "Uninterested Chat",
       "Chat tidak dikenal" >>

\* fmt.Sprintf("%.1f", averageScore): the average (in thousandths) rounded
\* to tenths, a tie going to the even digit
Sprintf1(avg) ==
    LET tenths == avg \div 100
        rest == avg % 100
    IN IF rest > 50 \/ (rest = 50 /\ tenths % 2 = 1) THEN tenths + 1 ELSE tenths

\* generateSummary: label, mean, the three bucket counts and the listing of
\* the evaluations in their order
generateSummary(m, strength, avg) ==
    LET scores == evaluations(m)
        Count(v) == Cardinality({ k \in 1..Len(scores) : scores[k] = v })
    IN [ strength |-> strength,
         mean |-> Sprintf1(avg),
         baikCount |-> Count(3), cukupCount |-> Count(2), burukCount |-> Count(1),
         detail |-> [ k \in 1..Len(scores) |->
                        << Parameters[k], m[k], StatusOf(scores[k]) >> ] ]

\* a rating that looks at the payment table
CalculateStrengthByPayments(m) ==
    IF nTxns > 0 THEN "Buruk"
    ELSE IF averageScore(totalScore(m)) >= 2500 THEN "Baik"
    ELSE IF averageScore(totalScore(m)) >= 1500 THEN "Cukup"
    ELSE "Buruk"

\* CalculateStrength: the label for the average score
CalculateStrength(m) ==
    IF averageScore(totalScore(m)) >= 2500 THEN "Baik"
    ELSE IF averageScore(totalScore(m)) >= 1500 THEN "Cukup"
    ELSE "Buruk"

\* a call of CalculateStrength with the octuple m: label and summary
CalculateStrengthCall(m) ==
    /\ Len(calculated.returned) < MaxCalls
    /\ calculated' =
          [ metrics |-> m,
            strength |-> CalculateStrength(m),
            returned |-> Append(calculated.returned,
                [ metrics |-> m,
                  strength |-> CalculateStrength(m),
                  summary |-> generateSummary(m, CalculateStrength(m),
                                              averageScore(totalScore(m))) ]) ]
    /\ UNCHANGED << userSessions, regMu, nSess, sess, sessionDB, diskID, nClients,
                    clients, storeFiles, dbRows, pendingSaves, spawned, txns, nTxns,
                    procs, loggedOut, quiet, analysisDB, storeDriver, wa, threads >>

\* a call of calculateTotalGroups on the sources at hand: the groups among
\* the contacts, the client and its answer, the stored groups
CountGroups ==
    LET m == calculated.metrics IN
    /\ Len(m) = 5
    /\ calculated.returned = << >>
    /\ calculated' = [ calculated EXCEPT !.returned =
             << calculateTotalGroups(m[1], JoinedGroups(m[2], m[3], m[4]), m[5]) >> ]
    /\ UNCHANGED << userSessions, regMu, nSess, sess, sessionDB, diskID, nClients,
                    clients, storeFiles, dbRows, pendingSaves, spawned, txns, nTxns,
                    procs, loggedOut, quiet, analysisDB, storeDriver, wa, threads >>

\* a call of CalculateStrength on the metrics at hand
Rate ==
    /\ calculated.metrics # << >>
    /\ calculated.strength = ""
    /\ CalculateStrengthCall(calculated.metrics)
\* --------------------------------------------------------------- handlers
\* a handler answers with an HTTP status and leaves through return site at
Respond(pr, code, at) == Done(pr, code, at)

\* the next manager call of a handler starts with GetOrCreateSession again
Call(pr, k) == Lookup([pr EXCEPT !.s = NoSession, !.k = k])

\* the routes under /api/wa
Endpoints ==
    { "HandleQR", "HandleStatus", "HandleAnalyze", "HandleForceAnalysis",
      "HandleLogout", "HandleRefreshQR", "HandleManualReconnect", "HandleDebug" }

\* a 401 that also drops every registry entry
extractUserIDFromTokenThenRemove(p, op) ==
    /\ Free(p)
    /\ op \in Endpoints
    /\ procs' = Step(p, Done([IdleProc EXCEPT !.op = op], "401", "token"))
    /\ userSessions' = [u \in DOMAIN userSessions |-> NoSession]
    /\ UNCHANGED << regMu, nSess, sess, sessionDB, diskID, nClients, clients,
                    storeFiles, dbRows, pendingSaves, spawned, txns, nTxns,
                    loggedOut, quiet, analysisDB, calculated, storeDriver, wa, threads >>

\* a request whose Authorization header is missing, is not "Bearer <token>" or
\* carries a token ValidateToken rejects: the handler answers 401 and returns
extractUserIDFromToken(p, op) ==
    /\ Free(p)
    /\ op \in Endpoints
    /\ procs' = Step(p, Done([IdleProc EXCEPT !.op = op], "401", "token"))
    /\ UNCHANGED << userSessions, regMu, nSess, sess, sessionDB, diskID, nClients,
                    clients, storeFiles, dbRows, pendingSaves, spawned, txns,
                    nTxns, loggedOut, quiet, analysisDB, calculated, storeDriver, wa, threads >>

\* HandleAnalyze: GetClient and the phone number bound to the client
HandleAnalyzeClient(p) ==
    LET pr == procs[p]
        r == sess[pr.s]
        c == r.Client
    IN
    /\ pr.pc = "ha_client"
    /\ r.mu = NoProc
    /\ procs' = Step(p, IF c = NilClient \/ clients[c].storeID = NoID
           THEN Respond(pr, "503", "client")
           ELSE [pr EXCEPT !.pc = "ha_paid", !.c = c, !.phone = clients[c].storeID])
    /\ UNCHANGED << userSessions, regMu, nSess, sess, sessionDB, diskID, nClients,
                    clients, storeFiles, dbRows, pendingSaves, spawned, txns, nTxns,
                    loggedOut, quiet, analysisDB, calculated, storeDriver, wa, threads >>

\* HandleAnalyze: the payment check (checked is the outcome of its query)
HandleAnalyzePaid(p, checked) ==
    LET pr == procs[p] IN
    /\ pr.pc = "ha_paid"
    /\ procs' = Step(p, IF ~checked THEN Respond(pr, "500", "payment check")
           ELSE IF CheckIfUserPaidForPhone(pr.user, pr.phone)
           THEN [pr EXCEPT !.pc = "ha_cache"]
           ELSE [pr EXCEPT !.pc = "ha_denied"])
    /\ UNCHANGED << userSessions, regMu, nSess, sess, sessionDB, diskID, nClients,
                    clients, storeFiles, dbRows, pendingSaves, spawned, txns, nTxns,
                    loggedOut, quiet, analysisDB, calculated, storeDriver, wa, threads >>

\* HandleAnalyze: the request is denied with 402; a second query (checkedAny
\* is its outcome, a failure counts as no payment) picks the kind of denial
HandleAnalyzeDenied(p, checkedAny) ==
    LET pr == procs[p] IN
    /\ pr.pc = "ha_denied"
    /\ procs' = Step(p, IF checkedAny /\ CheckIfUserHasAnyPaidTransaction(pr.user)
           THEN Respond(pr, "402", "wrong_phone_number")
           ELSE Respond(pr, "402", "no_payment"))
    /\ UNCHANGED << userSessions, regMu, nSess, sess, sessionDB, diskID, nClients,
                    clients, storeFiles, dbRows, pendingSaves, spawned, txns, nTxns,
                    loggedOut, quiet, analysisDB, calculated, storeDriver, wa, threads >>

\* HandleAnalyze: a cached result is served; without one IsReady is called
HandleAnalyzeCache(p) ==
    LET pr == procs[p] IN
    /\ pr.pc = "ha_cache"
    /\ regMu = NoProc
    /\ procs' = Step(p, IF GetCachedAnalysis(pr.user) # EmptyCache
           THEN Respond(pr, "result", "cached")
           ELSE Call(pr, "ha_ready"))
    /\ UNCHANGED << userSessions, regMu, nSess, sess, sessionDB, diskID, nClients,
                    clients, storeFiles, dbRows, pendingSaves, spawned, txns, nTxns,
                    loggedOut, quiet, analysisDB, calculated, storeDriver, wa, threads >>

\* HandleAnalyze: IsReady, then IsConnected on the client GetClient returned
HandleAnalyzeReady(p) ==
    LET pr == procs[p]
        r == sess[pr.s]
    IN
    /\ pr.pc = "ha_ready"
    /\ r.mu = NoProc
    /\ procs' = Step(p, IF ~r.Ready THEN Respond(pr, "503", "not ready")
           ELSE IF ~clients[pr.c].connected THEN Respond(pr, "503", "not connected")
           ELSE [pr EXCEPT !.pc = "ha_session"])
    /\ UNCHANGED << userSessions, regMu, nSess, sess, sessionDB, diskID, nClients,
                    clients, storeFiles, dbRows, pendingSaves, spawned, txns, nTxns,
                    loggedOut, quiet, analysisDB, calculated, storeDriver, wa, threads >>

\* HandleAnalyze: the session is fetched for Analyze
HandleAnalyzeSession(p) ==
    LET pr == procs[p] IN
    /\ pr.pc = "ha_session"
    /\ regMu = NoProc
    /\ procs' = Step(p, Call(pr, "analyze"))
    /\ UNCHANGED << userSessions, regMu, nSess, sess, sessionDB, diskID, nClients,
                    clients, storeFiles, dbRows, pendingSaves, spawned, txns, nTxns,
                    loggedOut, quiet, analysisDB, calculated, storeDriver, wa, threads >>

\* HandleForceAnalysis: IsReady, then GetClient is called
HandleForceAnalysisReady(p) ==
    LET pr == procs[p]
        r == sess[pr.s]
    IN
    /\ pr.pc = "hf_ready"
    /\ r.mu = NoProc
    /\ regMu = NoProc
    /\ procs' = Step(p, IF ~r.Ready THEN Respond(pr, "503", "not ready")
           ELSE Call(pr, "hf_client"))
    /\ UNCHANGED << userSessions, regMu, nSess, sess, sessionDB, diskID, nClients,
                    clients, storeFiles, dbRows, pendingSaves, spawned, txns, nTxns,
                    loggedOut, quiet, analysisDB, calculated, storeDriver, wa, threads >>

\* HandleForceAnalysis: GetClient, then the session is fetched for Analyze
HandleForceAnalysisClient(p) ==
    LET pr == procs[p]
        r == sess[pr.s]
    IN
    /\ pr.pc = "hf_client"
    /\ r.mu = NoProc
    /\ regMu = NoProc
    /\ procs' = Step(p, IF r.Client = NilClient THEN Respond(pr, "503", "client")
           ELSE Call(pr, "analyze"))
    /\ UNCHANGED << userSessions, regMu, nSess, sess, sessionDB, diskID, nClients,
                    clients, storeFiles, dbRows, pendingSaves, spawned, txns, nTxns,
                    loggedOut, quiet, analysisDB, calculated, storeDriver, wa, threads >>

\* HandleLogout: GetClient; without a client the handler reports success
\* at once, with one it goes on to the manager's Logout
HandleLogoutClient(p) ==
    LET pr == procs[p]
        r == sess[pr.s]
    IN
    /\ pr.pc = "hl_client"
    /\ r.mu = NoProc
    /\ procs' = Step(p, IF r.Client = NilClient
           THEN Respond(pr, "200", "no session")
           ELSE [pr EXCEPT !.pc = "hl_logout", !.s = NoSession])
    /\ UNCHANGED << userSessions, regMu, nSess, sess, sessionDB, diskID, nClients,
                    clients, storeFiles, dbRows, pendingSaves, spawned, txns, nTxns,
                    loggedOut, quiet, analysisDB, calculated, storeDriver, wa, threads >>

\* HandleLogout: the manager's Logout; what it returns is the answer
HandleLogout(p, loggedOutOk) ==
    /\ procs[p].pc = "hl_logout"
    /\ LogoutAs(p, [IdleProc EXCEPT !.op = "HandleLogout", !.user = procs[p].user],
                loggedOutOk)

\* ------------------------------------------------- the single-user client
\* monitorQR gives up after this many timeout events
maxTimeouts == 5

\* the monitor slots no goroutine has taken
FreeMonitors == { m \in Monitors : wa.monitors[m].kind = "none" }

Lowest(S) == CHOOSE m \in S : \A n \in S : m <= n

\* a goroutine of the given kind starts: it is at the top of its loop
Started(kind) ==
    [ NoMonitor EXCEPT !.kind = kind, !.pc = "loop", !.born = wa.stopChan ]

\* ManualReconnect under w.mu: nothing to do when a client is there and
\* ready; otherwise Connect, which restores a stored session and starts
\* monitorStatus and waitForContactsAndSetReady, or starts the QR flow with
\* monitorQR and monitorStatus (an error return changes none of the fields)
ManualReconnect(outcome) ==
    LET a == Lowest(FreeMonitors)
        b == Lowest(FreeMonitors \ {a})
    IN
    /\ wa.mu = "free"
    /\ ~(wa.client /\ wa.ready)
    /\ Cardinality(FreeMonitors) >= 2
    /\ outcome \in {"restored", "qr"}
    /\ wa' = IF outcome = "restored"
             THEN [ wa EXCEPT !.client = TRUE,
                              !.monitors[a] = Started("status"),
                              !.monitors[b] = Started("contacts") ]
             ELSE [ wa EXCEPT !.client = TRUE, !.ready = FALSE,
                              !.monitors[a] = Started("qr"),
                              !.monitors[b] = Started("status") ]
    /\ UNCHANGED << userSessions, regMu, nSess, sess, sessionDB, diskID, nClients,
                    clients, storeFiles, dbRows, pendingSaves, spawned, txns, nTxns,
                    procs, loggedOut, quiet, analysisDB, calculated, storeDriver, threads >>

\* waitForContactsAndSetReady: it stops when the client is gone, and
\* otherwise sets ready once contacts are there or its attempts are used up
waitForContactsAndSetReady(m) ==
    /\ wa.monitors[m].kind = "contacts"
    /\ wa.monitors[m].pc = "loop"
    /\ wa.client => wa.mu = "free"
    /\ wa' = [ wa EXCEPT !.ready = IF wa.client THEN TRUE ELSE @,
                         !.monitors[m].pc = "stopped" ]
    /\ UNCHANGED << userSessions, regMu, nSess, sess, sessionDB, diskID, nClients,
                    clients, storeFiles, dbRows, pendingSaves, spawned, txns, nTxns,
                    procs, loggedOut, quiet, analysisDB, calculated, storeDriver, threads >>

\* a monitor enters its select: it reads w.stopChan and waits on that channel
monitorSelect(m) ==
    /\ wa.monitors[m].kind \in {"qr", "status"}
    /\ wa.monitors[m].pc = "loop"
    /\ wa' = [ wa EXCEPT !.monitors[m].pc = "select",
                         !.monitors[m].stop = wa.stopChan ]
    /\ UNCHANGED << userSessions, regMu, nSess, sess, sessionDB, diskID, nClients,
                    clients, storeFiles, dbRows, pendingSaves, spawned, txns, nTxns,
                    procs, loggedOut, quiet, analysisDB, calculated, storeDriver, threads >>

\* the channel a monitor waits on has been closed: the monitor returns
monitorStopped(m) ==
    /\ wa.monitors[m].pc = "select"
    /\ wa.monitors[m].stop \in wa.closed
    /\ wa' = [ wa EXCEPT !.monitors[m].pc = "stopped" ]
    /\ UNCHANGED << userSessions, regMu, nSess, sess, sessionDB, diskID, nClients,
                    clients, storeFiles, dbRows, pendingSaves, spawned, txns, nTxns,
                    procs, loggedOut, quiet, analysisDB, calculated, storeDriver, threads >>

\* monitorStatus: the ticker fires; with a client it goes for the lock
monitorStatusTick(m) ==
    /\ wa.monitors[m].kind = "status"
    /\ wa.monitors[m].pc = "select"
    /\ wa' = [ wa EXCEPT !.monitors[m].pc = IF wa.client THEN "lock" ELSE "loop" ]
    /\ UNCHANGED << userSessions, regMu, nSess, sess, sessionDB, diskID, nClients,
                    clients, storeFiles, dbRows, pendingSaves, spawned, txns, nTxns,
                    procs, loggedOut, quiet, analysisDB, calculated, storeDriver, threads >>

\* monitorStatus under w.mu: ready follows the client (loggedIn is what
\* Store.ID != nil && IsConnected() gives); w.client.Store of a nil client
\* is a nil dereference
monitorStatus(m, loggedIn) ==
    /\ wa.monitors[m].kind = "status"
    /\ wa.monitors[m].pc = "lock"
    /\ wa.mu = "free"
    /\ wa' = IF ~wa.client
             THEN [ wa EXCEPT !.monitors[m].pc = "panic" ]
             ELSE [ wa EXCEPT !.ready = loggedIn,
                              !.qrCode = IF ~wa.ready /\ loggedIn THEN EmptyString ELSE @,
                              !.monitors[m].pc = "loop" ]
    /\ UNCHANGED << userSessions, regMu, nSess, sess, sessionDB, diskID, nClients,
                    clients, storeFiles, dbRows, pendingSaves, spawned, txns, nTxns,
                    procs, loggedOut, quiet, analysisDB, calculated, storeDriver, threads >>

\* monitorQR receives an event from the QR channel
monitorQREvent(m, event) ==
    /\ wa.monitors[m].kind = "qr"
    /\ wa.monitors[m].pc = "select"
    /\ event \in {"code", "timeout", "error"}
    /\ wa' = [ wa EXCEPT !.monitors[m].pc = IF event = "error" THEN "loop" ELSE "lock",
                         !.monitors[m].ev = IF event = "error" THEN "" ELSE event ]
    /\ UNCHANGED << userSessions, regMu, nSess, sess, sessionDB, diskID, nClients,
                    clients, storeFiles, dbRows, pendingSaves, spawned, txns, nTxns,
                    procs, loggedOut, quiet, analysisDB, calculated, storeDriver, threads >>

\* monitorQR under w.mu: a code is stored as an image; a timeout clears the
\* code, counts, and either ends the monitor or leaves a RefreshQR behind
monitorQR(m, code) ==
    LET mon == wa.monitors[m]
        count == mon.timeoutCount + 1
    IN
    /\ mon.kind = "qr"
    /\ mon.pc = "lock"
    /\ wa.mu = "free"
    /\ wa' = IF mon.ev = "code"
             THEN [ wa EXCEPT !.qrCode = QRImage(code),
                              !.monitors[m].pc = "loop",
                              !.monitors[m].ev = "",
                              !.monitors[m].timeoutCount = 0 ]
             ELSE [ wa EXCEPT !.qrCode = EmptyString,
                              !.monitors[m].ev = "",
                              !.monitors[m].timeoutCount = count,
                              !.monitors[m].pc = IF count >= maxTimeouts
                                                 THEN "stopped" ELSE "loop",
                              !.refreshes = IF count >= maxTimeouts \/ @ >= MaxRefreshes
                                            THEN @ ELSE @ + 1 ]
    /\ UNCHANGED << userSessions, regMu, nSess, sess, sessionDB, diskID, nClients,
                    clients, storeFiles, dbRows, pendingSaves, spawned, txns, nTxns,
                    procs, loggedOut, quiet, analysisDB, calculated, storeDriver, threads >>

\* RefreshQR under w.mu, started by monitorQR after a timeout: without a
\* client or with a logged-in one it does nothing, otherwise it clears the code
RefreshQR(loggedIn) ==
    /\ wa.refreshes > 0
    /\ wa.mu = "free"
    /\ wa' = [ wa EXCEPT !.refreshes = @ - 1,
                         !.qrCode = IF wa.client /\ ~loggedIn THEN EmptyString ELSE @ ]
    /\ UNCHANGED << userSessions, regMu, nSess, sess, sessionDB, diskID, nClients,
                    clients, storeFiles, dbRows, pendingSaves, spawned, txns, nTxns,
                    procs, loggedOut, quiet, analysisDB, calculated, storeDriver, threads >>

\* Reset takes w.mu, closes the stop channel and puts a new one in its place
Reset ==
    /\ wa.mu = "free"
    /\ wa.stopChan < MaxResets
    /\ wa' = [ wa EXCEPT !.mu = "Reset",
                         !.closed = @ \cup {wa.stopChan},
                         !.stopChan = @ + 1 ]
    /\ UNCHANGED << userSessions, regMu, nSess, sess, sessionDB, diskID, nClients,
                    clients, storeFiles, dbRows, pendingSaves, spawned, txns, nTxns,
                    procs, loggedOut, quiet, analysisDB, calculated, storeDriver, threads >>

\* Reset disconnects and drops the client, clears the code and ready, and
\* gives w.mu back
ResetClear ==
    /\ wa.mu = "Reset"
    /\ wa' = [ wa EXCEPT !.mu = "free", !.client = FALSE,
                         !.qrCode = EmptyString, !.ready = FALSE ]
    /\ UNCHANGED << userSessions, regMu, nSess, sess, sessionDB, diskID, nClients,
                    clients, storeFiles, dbRows, pendingSaves, spawned, txns, nTxns,
                    procs, loggedOut, quiet, analysisDB, calculated, storeDriver, threads >>

\* ------------------------------------------------- the manager's locks
\* the lock calls of each operation, in program order; a call is a pair of
\* what is called (Lock, RLock, Unlock, RUnlock, or call for a call that
\* leaves the process: credential store, client library, database) and the
\* mutex or the callee
LockOps ==
    { "GetOrCreateSession", "Connect", "GetQRCode", "GetStatus", "IsReady",
      "GetClient", "GetSessionInfo", "GetCachedAnalysis", "Analyze", "Logout",
      "waitForQR" }

\* GetOrCreateSession: the lookup under the read lock; createNewSession
\* under the write lock when the lookup found no entry
GetOrCreateSessionLocks(found) ==
    << << "RLock", "m.mu" >>, << "RUnlock", "m.mu" >> >>
    \o (IF found THEN << >>
        ELSE << << "Lock", "m.mu" >>, << "call", "store" >>, << "Unlock", "m.mu" >> >>)

\* a connect that looks into the registry while it holds the session
connectLocksRegistry ==
    << << "Lock", "session.mu" >>, << "RLock", "m.mu" >>, << "call", "client" >>,
       << "RUnlock", "m.mu" >>, << "Unlock", "session.mu" >> >>

\* connect: the whole body, the client's Connect included, holds the session
connectLocks ==
    << << "Lock", "session.mu" >>, << "call", "client" >>, << "Unlock", "session.mu" >> >>

\* one field read under the session's read lock
ReadLocks == << << "RLock", "session.mu" >>, << "RUnlock", "session.mu" >> >>

\* one event of waitForQR: the fields are written, then the row is saved
waitForQRLocks ==
    << << "Lock", "session.mu" >>, << "Unlock", "session.mu" >>, << "call", "database" >> >>

\* GetSessionInfo: the session is read while the registry is held
GetSessionInfoLocks(found) ==
    << << "RLock", "m.mu" >> >>
    \o (IF found THEN ReadLocks ELSE << >>)
    \o << << "RUnlock", "m.mu" >> >>

\* GetCachedAnalysis: the cache is read while the registry is held
GetCachedAnalysisLocks(found) ==
    << << "RLock", "m.mu" >> >>
    \o (IF found
        THEN << << "RLock", "session.AnalysisMu" >>, << "RUnlock", "session.AnalysisMu" >> >>
        ELSE << >>)
    \o << << "RUnlock", "m.mu" >> >>

\* ClearAnalysisCache
ClearAnalysisCacheLocks ==
    << << "Lock", "session.AnalysisMu" >>, << "Unlock", "session.AnalysisMu" >> >>

\* Analyze: the cache read, ClearAnalysisCache when it found a result that
\* is not valid, the contact fetch, the cache write, the two row writes
AnalyzeLocks(found) ==
    << << "RLock", "session.AnalysisMu" >>, << "RUnlock", "session.AnalysisMu" >> >>
    \o (IF found THEN ClearAnalysisCacheLocks ELSE << >>)
    \o << << "call", "client" >> >>
    \o ClearAnalysisCacheLocks
    \o << << "call", "database" >> >>

\* Logout: the whole body under the registry's write lock
LogoutLocks(found) ==
    << << "Lock", "m.mu" >> >>
    \o (IF found THEN << << "call", "client" >> >> \o ClearAnalysisCacheLocks ELSE << >>)
    \o << << "call", "database" >>, << "Unlock", "m.mu" >> >>

LockCalls(op, found) ==
    CASE op = "GetOrCreateSession" -> GetOrCreateSessionLocks(found)
      [] op = "Connect" -> GetOrCreateSessionLocks(found) \o connectLocks
      [] op = "GetQRCode" -> GetOrCreateSessionLocks(found) \o ReadLocks \o ReadLocks
      [] op \in {"GetStatus", "IsReady", "GetClient"} ->
            GetOrCreateSessionLocks(found) \o ReadLocks
      [] op = "GetSessionInfo" -> GetSessionInfoLocks(found)
      [] op = "GetCachedAnalysis" -> GetCachedAnalysisLocks(found)
      [] op = "Analyze" -> AnalyzeLocks(found)
      [] op = "Logout" -> LogoutLocks(found)
      [] op = "waitForQR" -> waitForQRLocks
      [] OTHER -> << >>

\* the lock calls of the operation goroutine t runs
CallsOf(t) == LockCalls(threads[t].op, threads[t].found)

\* the call goroutine t makes next
NextCall(t) ==
    IF threads[t].at < Len(CallsOf(t)) THEN CallsOf(t)[threads[t].at + 1]
    ELSE << "return", "" >>

\* goroutine t holds mutex l, acquired with call how
HoldsAs(t, how, l) ==
    \E i \in 1..threads[t].at :
        /\ CallsOf(t)[i] = << how, l >>
        /\ \A j \in (i + 1)..threads[t].at : CallsOf(t)[j][2] # l

Holds(t, l) == HoldsAs(t, "Lock", l) \/ HoldsAs(t, "RLock", l)

\* sync.RWMutex: Lock waits for the writer and the readers inside, and for
\* the readers that the last Unlock admitted; RLock waits while a writer is
\* inside, and while one is waiting unless an Unlock has admitted the reader
CanAcquire(t) ==
    LET l == NextCall(t)[2] IN
    CASE NextCall(t)[1] = "Lock" ->
            /\ \A u \in Threads : ~Holds(u, l)
            /\ \A u \in Threads : ~(NextCall(u) = << "RLock", l >> /\ threads[u].pass)
      [] NextCall(t)[1] = "RLock" ->
            /\ \A u \in Threads : ~HoldsAs(u, "Lock", l)
            /\ \/ threads[t].pass
               \/ \A u \in Threads : NextCall(u) # << "Lock", l >>
      [] OTHER -> FALSE

\* goroutine t is handed operation op
Begin(t, op, found) ==
    /\ threads[t].op = "idle"
    /\ threads' = [threads EXCEPT ![t] = [IdleThread EXCEPT !.op = op, !.found = found]]
    /\ UNCHANGED << userSessions, regMu, nSess, sess, sessionDB, diskID, nClients,
                    clients, storeFiles, dbRows, pendingSaves, spawned, txns, nTxns,
                    procs, loggedOut, quiet, analysisDB, calculated, storeDriver, wa >>

\* Lock or RLock returns
Acquire(t) ==
    /\ CanAcquire(t)
    /\ threads' = [threads EXCEPT ![t].at = @ + 1, ![t].pass = FALSE]
    /\ UNCHANGED << userSessions, regMu, nSess, sess, sessionDB, diskID, nClients,
                    clients, storeFiles, dbRows, pendingSaves, spawned, txns, nTxns,
                    procs, loggedOut, quiet, analysisDB, calculated, storeDriver, wa >>

\* Unlock or RUnlock; Unlock admits the readers that wait
Release(t) ==
    /\ NextCall(t)[1] \in {"Unlock", "RUnlock"}
    /\ threads' = [ u \in Threads |->
           IF u = t THEN [threads[u] EXCEPT !.at = @ + 1]
           ELSE IF NextCall(t)[1] = "Unlock" /\ NextCall(u) = << "RLock", NextCall(t)[2] >>
           THEN [threads[u] EXCEPT !.pass = TRUE]
           ELSE threads[u] ]
    /\ UNCHANGED << userSessions, regMu, nSess, sess, sessionDB, diskID, nClients,
                    clients, storeFiles, dbRows, pendingSaves, spawned, txns, nTxns,
                    procs, loggedOut, quiet, analysisDB, calculated, storeDriver, wa >>

\* a call that leaves the process returns
ExternalCall(t) ==
    /\ NextCall(t)[1] = "call"
    /\ threads' = [threads EXCEPT ![t].at = @ + 1]
    /\ UNCHANGED << userSessions, regMu, nSess, sess, sessionDB, diskID, nClients,
                    clients, storeFiles, dbRows, pendingSaves, spawned, txns, nTxns,
                    procs, loggedOut, quiet, analysisDB, calculated, storeDriver, wa >>

\* the operation returns
Return(t) ==
    /\ threads[t].op # "idle"
    /\ NextCall(t)[1] = "return"
    /\ threads' = [threads EXCEPT ![t] = IdleThread]
    /\ UNCHANGED << userSessions, regMu, nSess, sess, sessionDB, diskID, nClients,
                    clients, storeFiles, dbRows, pendingSaves, spawned, txns, nTxns,
                    procs, loggedOut, quiet, analysisDB, calculated, storeDriver, wa >>
\* --------------------------------------------------------- specifications
\* the steps of the pairing watcher and of the clock
Watcher ==
    \/ \E c \in ClientIds, code \in Codes, rendered \in BOOLEAN :
          waitForQRCode(c, code, rendered)
    \/ \E c \in ClientIds, phone \in Phones : waitForQRSuccess(c, phone)
    \/ \E c \in ClientIds : waitForQROther(c)
    \/ \E c \in ClientIds : waitForQRTimeout(c)
    \/ \E c \in ClientIds : waitForQRPersist(c, TRUE)
    \/ Tick

\* the steps of Connect once it holds the session
Connecting ==
    \/ \E p \in Procs : connect(p)
    \/ \E p \in Procs : connectIO(p)

\* the session registry: lookups, creation and logout
NextRegistry ==
    \/ \E p \in Procs, u \in Users : GetOrCreateSession(p, "GetOrCreateSession", u)
    \/ \E p \in Procs, saved \in BOOLEAN : createNewSession(p, saved)
    \/ \E p \in Procs, u \in Users, ok \in BOOLEAN : Logout(p, u, ok)
    \/ \E p \in Procs, deleted \in BOOLEAN : LogoutClear(p, deleted)

SpecRegistry == Init /\ [][NextRegistry]_vars

\* the session lifecycle: Connect, the pairing watcher, Logout
Next ==
    \/ \E p \in Procs, u \in Users : GetOrCreateSession(p, "Connect", u)
    \/ \E p \in Procs : createNewSession(p, TRUE)
    \/ Connecting
    \/ Watcher
    \/ \E p \in Procs, u \in Users, ok \in BOOLEAN : Logout(p, u, ok)
    \/ \E p \in Procs : LogoutClear(p, TRUE)

Spec == Init /\ [][Next]_vars

\* pairing under the read operations: GetQRCode and the connect it spawns,
\* GetStatus, IsReady, GetClient
ReadOps == {"GetQRCode", "GetStatus", "IsReady", "GetClient"}

NextReads ==
    \/ \E p \in Procs, u \in Users, op \in ReadOps \cup {"Connect"} :
          GetOrCreateSession(p, op, u)
    \/ \E p \in Procs, u \in Users : SpawnedConnect(p, u)
    \/ \E p \in Procs : createNewSession(p, TRUE)
    \/ \E p \in Procs : ReadField(p)
    \/ \E p \in Procs : GetQRCodeCheck(p)
    \/ \E p \in Procs : GetQRCodeRead(p)
    \/ Connecting
    \/ Watcher

SpecReads == Init /\ [][NextReads]_vars

\* logout against the persistence work started before it
NextPersist ==
    \/ \E p \in Procs, u \in Users : GetOrCreateSession(p, "Connect", u)
    \/ \E p \in Procs, saved \in BOOLEAN : createNewSession(p, saved)
    \/ Connecting
    \/ \E c \in ClientIds, phone \in Phones : waitForQRSuccess(c, phone)
    \/ \E c \in ClientIds, ok \in BOOLEAN : waitForQRPersist(c, ok)
    \/ \E job \in SaveJobs, ok \in BOOLEAN : saveOrUpdateSessionInDatabase(job, ok)
    \/ \E p \in Procs, u \in Users : Logout(p, u, TRUE)
    \/ \E p \in Procs, deleted \in BOOLEAN : LogoutClear(p, deleted)

SpecPersist == Init /\ [][NextPersist]_vars

\* the analysis endpoints behind the payment check
NextGate ==
    \/ \E p \in Procs, u \in Users,
          op \in {"Connect", "HandleAnalyze", "HandleForceAnalysis"} :
          GetOrCreateSession(p, op, u)
    \/ \E p \in Procs : createNewSession(p, TRUE)
    \/ Connecting
    \/ \E c \in ClientIds, phone \in Phones : waitForQRSuccess(c, phone)
    \/ \E c \in ClientIds : waitForQRPersist(c, TRUE)
    \/ \E u \in Users, phone \in PayPhones : CreatePayment(u, phone)
    \/ \E t \in TxnIds, status \in ReceivedStatuses : UpdateTransactionStatus(t, status)
    \/ \E p \in Procs, op \in Endpoints : extractUserIDFromToken(p, op)
    \/ \E p \in Procs : HandleAnalyzeClient(p)
    \/ \E p \in Procs, checked \in BOOLEAN : HandleAnalyzePaid(p, checked)
    \/ \E p \in Procs, checkedAny \in BOOLEAN : HandleAnalyzeDenied(p, checkedAny)
    \/ \E p \in Procs : HandleAnalyzeCache(p)
    \/ \E p \in Procs : HandleAnalyzeReady(p)
    \/ \E p \in Procs : HandleAnalyzeSession(p)
    \/ \E p \in Procs : HandleForceAnalysisReady(p)
    \/ \E p \in Procs : HandleForceAnalysisClient(p)
    \/ \E p \in Procs : Analyze(p)
    \/ \E p \in Procs, fetched \in BOOLEAN, saved \in 0..MaxContacts,
          unsaved \in 0..MaxContacts : AnalyzeIO(p, fetched, saved, unsaved)
    \/ \E p \in Procs, groups \in 0..MaxGroups : AnalyzeGroups(p, groups)
    \/ \E p \in Procs, historyOk \in BOOLEAN, resultOk \in BOOLEAN :
          AnalyzeAge(p, historyOk, resultOk)

SpecGate == Init /\ [][NextGate]_vars


\* the payment table and the access check on it
NextPay ==
    \/ \E u \in Payers, phone \in PayPhones : CreatePayment(u, phone)
    \/ \E t \in TxnIds, status \in ReceivedStatuses : UpdateTransactionStatus(t, status)
    \/ \E t \in TxnIds, fetched \in BOOLEAN, status \in ReceivedStatuses :
          ReconcileTransactionStatusByExternalID(t, fetched, status)
    \/ \E p \in Procs, u \in Payers, phone \in PayPhones : CheckPaid(p, u, phone)

SpecPay == Init /\ [][NextPay]_vars

\* the analysis cache of a session across connect, logout and pairing, with
\* three requests in flight for one user: worker 1 sends the connects,
\* worker 2 the analysis requests and worker 3 the logouts
NextCache ==
    \/ \E u \in Users : GetOrCreateSession(1, "Connect", u)
    \/ \E u \in Users : GetOrCreateSession(2, "HandleForceAnalysis", u)
    \/ \E p \in Workers : createNewSession(p, TRUE)
    \/ \E p \in Workers : connect(p)
    \/ \E p \in Workers : connectIO(p)
    \/ \E c \in ClientIds, phone \in Phones : waitForQRSuccess(c, phone)
    \/ \E c \in ClientIds : waitForQRPersist(c, TRUE)
    \/ Tick
    \/ \E c \in ClientIds : waitForQRTimeout(c)
    \/ \E u \in Users : Logout(3, u, TRUE)
    \/ \E p \in Workers : LogoutClear(p, TRUE)
    \/ \E p \in Workers : HandleForceAnalysisReady(p)
    \/ \E p \in Workers : HandleForceAnalysisClient(p)
    \/ \E p \in Workers : Analyze(p)
    \/ \E p \in Workers, fetched \in BOOLEAN, saved \in 0..MaxContacts :
          AnalyzeIO(p, fetched, saved, 0)
    \/ \E p \in Workers : AnalyzeGroups(p, 0)
    \/ \E p \in Workers, written \in BOOLEAN : AnalyzeAge(p, written, written)

SpecCache == InitWorkers /\ [][NextCache]_vars

\* Analyze against a messaging client that may never answer: the requests
\* connect and force an analysis; every step the program takes by itself is
\* taken, and so is the expiry of the one timeout Analyze arms (on its own
\* contact fetch); nothing makes the client answer the joined-groups query
\* or the credential store answer the contact fetch of the age estimate
NextFetch ==
    \/ \E p \in Procs, u \in Users, op \in {"Connect", "HandleForceAnalysis"} :
          GetOrCreateSession(p, op, u)
    \/ \E p \in Procs : createNewSession(p, TRUE)
    \/ Connecting
    \/ \E p \in Procs : HandleForceAnalysisReady(p)
    \/ \E p \in Procs : HandleForceAnalysisClient(p)
    \/ \E p \in Procs : Analyze(p)
    \/ \E p \in Procs, fetched \in BOOLEAN, saved \in 0..MaxContacts,
          unsaved \in 0..MaxContacts : AnalyzeIO(p, fetched, saved, unsaved)
    \/ \E p \in Procs, groups \in 0..MaxGroups : AnalyzeGroups(p, groups)
    \/ \E p \in Procs, historyOk \in BOOLEAN, resultOk \in BOOLEAN :
          AnalyzeAge(p, historyOk, resultOk)

FetchFairness ==
    \A p \in Procs :
        /\ WF_vars(Analyze(p))
        /\ WF_vars(AnalyzeIO(p, FALSE, 0, 0))

SpecFetch == Init /\ [][NextFetch]_vars /\ FetchFairness

\* CalculateStrength on every octuple of metrics drawn from values on both
\* sides of each threshold of the eight evaluations, and from the values
\* the program logs as its defaults
MetricSamples ==
    << {39, 40, 100, 150}, {99, 100, 200, 250}, {89, 90, 365, 400},
       {29, 30, 80, 90}, {29, 30, 100, 120}, {2, 5, 10, 11},
       {50, 100, 500, 501}, {10, 15, 30, 31} >>

InitStrength ==
    /\ userSessions = [u \in Users |-> NoSession]
    /\ regMu = NoProc
    /\ nSess = 0
    /\ sess = [i \in SessIds |-> BlankSession]
    /\ sessionDB = [i \in SessIds |-> NoID]
    /\ diskID = [u \in Users |-> NoID]
    /\ nClients = 0
    /\ clients = [c \in ClientIds |-> BlankClient]
    /\ storeFiles = [u \in Users |-> FALSE]
    /\ dbRows = [u \in Users |-> NoRow]
    /\ pendingSaves = {}
    /\ spawned = {}
    /\ txns = [t \in TxnIds |-> BlankTxn]
    /\ nTxns = 0
    /\ procs = [p \in Procs |-> IdleProc]
    /\ loggedOut = {}
    /\ quiet = [u \in Users |-> FALSE]
    /\ analysisDB = NoRows
    /\ \E a \in MetricSamples[1], b \in MetricSamples[2], c \in MetricSamples[3],
          d \in MetricSamples[4], e \in MetricSamples[5], f \in MetricSamples[6],
          g \in MetricSamples[7], h \in MetricSamples[8] :
          calculated = [ metrics |-> << a, b, c, d, e, f, g, h >>, strength |-> "",
                         returned |-> << >> ]
    /\ storeDriver = "sqlite"
    /\ wa = NoWhatsApp
    /\ threads = [t \in Threads |-> IdleThread]

NextStrength == Rate

SpecStrength == InitStrength /\ [][NextStrength]_vars

\* CalculateStrength called again and again, on a few octuples, while the
\* payment table changes underneath
RatedSamples ==
    { << 150, 250, 400, 90, 120, 2, 50, 10 >>,
      << 100, 200, 365, 80, 40, 11, 501, 31 >>,
      << 39, 99, 89, 29, 29, 11, 501, 31 >> }

NextRatings ==
    \/ \E m \in RatedSamples : CalculateStrengthCall(m)
    \/ \E u \in Payers, phone \in PayPhones : CreatePayment(u, phone)
    \/ \E t \in TxnIds, status \in ReceivedStatuses : UpdateTransactionStatus(t, status)

SpecRatings == Init /\ [][NextRatings]_vars

\* two users side by side, each served by a request of their own and each
\* pairing a phone of their own, under either store driver; with sqlite
\* both start with credentials on disk or neither does; the pairing wait
\* never runs out
TenantPhone(u) == u

InitTenants ==
    /\ userSessions = [u \in Tenants |-> NoSession]
    /\ regMu = NoProc
    /\ nSess = 0
    /\ sess = [i \in SessIds |-> BlankSession]
    /\ sessionDB = [i \in SessIds |-> NoID]
    /\ storeDriver \in {"sqlite", "postgres"}
    /\ \E paired \in {{}, Tenants} :
          /\ storeDriver = "postgres" => paired = {}
          /\ diskID = [k \in Tenants \cup {SharedStore} |->
                         IF k = SharedStore THEN << >>
                         ELSE IF k \in paired THEN TenantPhone(k) ELSE NoID]
          /\ storeFiles = [u \in Tenants |-> u \in paired]
    /\ nClients = 0
    /\ clients = [c \in ClientIds |-> BlankClient]
    /\ dbRows = [u \in Tenants |-> NoRow]
    /\ pendingSaves = {}
    /\ spawned = {}
    /\ txns = [t \in TxnIds |-> BlankTxn]
    /\ nTxns = 0
    /\ procs = [p \in Tenants |-> IdleProc]
    /\ loggedOut = {}
    /\ quiet = [u \in Tenants |-> FALSE]
    /\ analysisDB = NoRows
    /\ calculated = NoCalculation
    /\ wa = NoWhatsApp
    /\ threads = [t \in Threads |-> IdleThread]

NextIsolation ==
    \/ \E u \in Tenants, op \in {"Connect", "GetQRCode", "HandleForceAnalysis"} :
          GetOrCreateSession(u, op, u)
    \/ \E u \in Tenants : SpawnedConnect(u, u)
    \/ \E p \in Tenants : createNewSession(p, TRUE)
    \/ \E p \in Tenants : connect(p)
    \/ \E p \in Tenants : connectIO(p)
    \/ \E p \in Tenants : GetQRCodeCheck(p)
    \/ \E p \in Tenants : GetQRCodeRead(p)
    \/ \E c \in ClientIds, code \in Codes : waitForQRCode(c, code, TRUE)
    \/ \E c \in ClientIds :
          waitForQRSuccess(c, TenantPhone(sess[clients[c].sess].UserID))
    \/ \E c \in ClientIds : waitForQRPersist(c, TRUE)
    \/ \E p \in Tenants : HandleForceAnalysisReady(p)
    \/ \E p \in Tenants : HandleForceAnalysisClient(p)
    \/ \E p \in Tenants : Analyze(p)
    \/ \E p \in Tenants, fetched \in BOOLEAN : AnalyzeIO(p, fetched, 1, 0)
    \/ \E p \in Tenants : AnalyzeGroups(p, 0)
    \/ \E p \in Tenants : AnalyzeAge(p, TRUE, TRUE)
    \/ \E u \in Tenants : Logout(u, u, TRUE)
    \/ \E p \in Tenants : LogoutClear(p, TRUE)

SpecIsolation == InitTenants /\ [][NextIsolation]_vars

\* a connection that drops under a session nobody logs out
NextDrift ==
    \/ \E p \in Procs, u \in Users : GetOrCreateSession(p, "Connect", u)
    \/ \E p \in Procs : createNewSession(p, TRUE)
    \/ Connecting
    \/ Watcher
    \/ \E c \in ClientIds, unlinked \in BOOLEAN : ConnectionLost(c, unlinked)

\* the goroutines of the program keep running and the clock keeps going
DriftFairness ==
    /\ WF_vars(Connecting)
    /\ WF_vars(Watcher)

SpecDrift == Init /\ [][NextDrift]_vars /\ DriftFairness

\* the single-user client: reconnects, its monitors, and Reset
NextReset ==
    \/ \E outcome \in {"restored", "qr"} : ManualReconnect(outcome)
    \/ \E m \in Monitors : waitForContactsAndSetReady(m)
    \/ \E m \in Monitors : monitorSelect(m)
    \/ \E m \in Monitors : monitorStopped(m)
    \/ \E m \in Monitors : monitorStatusTick(m)
    \/ \E m \in Monitors, loggedIn \in BOOLEAN : monitorStatus(m, loggedIn)
    \/ \E m \in Monitors, event \in {"code", "timeout", "error"} :
          monitorQREvent(m, event)
    \/ \E m \in Monitors, code \in Codes : monitorQR(m, code)
    \/ \E loggedIn \in BOOLEAN : RefreshQR(loggedIn)
    \/ Reset
    \/ ResetClear

SpecReset == Init /\ [][NextReset]_vars

\* POST /api/wa/logout against Connect and the pairing watcher
NextLogout ==
    \/ \E p \in Procs, u \in Users, op \in {"Connect", "HandleLogout"} :
          GetOrCreateSession(p, op, u)
    \/ \E p \in Procs : createNewSession(p, TRUE)
    \/ Connecting
    \/ Watcher
    \/ \E p \in Procs : HandleLogoutClient(p)
    \/ \E p \in Procs, ok \in BOOLEAN : HandleLogout(p, ok)
    \/ \E p \in Procs : LogoutClear(p, TRUE)

SpecLogout == Init /\ [][NextLogout]_vars

\* every outcome of the writes to the tables: done, failed, never returning
NextStore ==
    \/ \E p \in Procs, u \in Users, op \in {"Connect", "HandleForceAnalysis"} :
          GetOrCreateSession(p, op, u)
    \/ \E p \in Procs, saved \in BOOLEAN : createNewSession(p, saved)
    \/ \E p \in Procs : createNewSessionBlocked(p)
    \/ Connecting
    \/ \E c \in ClientIds, phone \in Phones : waitForQRSuccess(c, phone)
    \/ \E c \in ClientIds, ok \in BOOLEAN : waitForQRPersist(c, ok)
    \/ \E job \in SaveJobs, ok \in BOOLEAN : saveOrUpdateSessionInDatabase(job, ok)
    \/ \E p \in Procs : HandleForceAnalysisReady(p)
    \/ \E p \in Procs : HandleForceAnalysisClient(p)
    \/ \E p \in Procs : Analyze(p)
    \/ \E p \in Procs, saved \in 0..MaxContacts, unsaved \in 0..MaxContacts :
          AnalyzeIO(p, TRUE, saved, unsaved)
    \/ \E p \in Procs, groups \in 0..MaxGroups : AnalyzeGroups(p, groups)
    \/ \E p \in Procs, historyOk \in BOOLEAN, resultOk \in BOOLEAN :
          AnalyzeAge(p, historyOk, resultOk)
    \/ \E p \in Procs : AnalyzeAgeBlocked(p)

\* a request that can take its next step takes it; a write that never
\* returns is a step nobody takes
StoreFairness ==
    \A p \in Procs :
        /\ WF_vars(createNewSession(p, TRUE))
        /\ WF_vars(AnalyzeAge(p, FALSE, FALSE))

SpecStore == Init /\ [][NextStore]_vars /\ StoreFairness

\* calculateTotalGroups on every triple of sources up to MaxCount
InitGroups ==
    /\ userSessions = [u \in Users |-> NoSession]
    /\ regMu = NoProc
    /\ nSess = 0
    /\ sess = [i \in SessIds |-> BlankSession]
    /\ sessionDB = [i \in SessIds |-> NoID]
    /\ diskID = [u \in Users |-> NoID]
    /\ nClients = 0
    /\ clients = [c \in ClientIds |-> BlankClient]
    /\ storeFiles = [u \in Users |-> FALSE]
    /\ dbRows = [u \in Users |-> NoRow]
    /\ pendingSaves = {}
    /\ spawned = {}
    /\ txns = [t \in TxnIds |-> BlankTxn]
    /\ nTxns = 0
    /\ procs = [p \in Procs |-> IdleProc]
    /\ loggedOut = {}
    /\ quiet = [u \in Users |-> FALSE]
    /\ analysisDB = NoRows
    /\ \E contactGroups \in 0..MaxCount, hasClient \in BOOLEAN, queryOk \in BOOLEAN,
          n \in 0..MaxCount, storedGroups \in 0..MaxCount :
          calculated = [ metrics |-> << contactGroups, hasClient, queryOk, n,
                                        storedGroups >>,
                         strength |-> "", returned |-> << >> ]
    /\ storeDriver = "sqlite"
    /\ wa = NoWhatsApp
    /\ threads = [t \in Threads |-> IdleThread]

NextGroups == CountGroups

SpecGroups == InitGroups /\ [][NextGroups]_vars

\* logout against the connect GetQRCode fired and forgot
NextSpawn ==
    \/ \E p \in Procs, u \in Users : GetOrCreateSession(p, "GetQRCode", u)
    \/ \E p \in Procs, u \in Users : SpawnedConnect(p, u)
    \/ \E p \in Procs : createNewSession(p, TRUE)
    \/ \E p \in Procs : GetQRCodeCheck(p)
    \/ \E p \in Procs : GetQRCodeRead(p)
    \/ Connecting
    \/ \E p \in Procs, u \in Users : Logout(p, u, TRUE)
    \/ \E p \in Procs : LogoutClear(p, TRUE)

SpecSpawn == Init /\ [][NextSpawn]_vars

\* one user's analysis requests while the session is logged out and paired
\* again, with either of two phone numbers
NextIdentity ==
    \/ \E p \in Procs, u \in Users, op \in {"Connect", "HandleAnalyze"} :
          GetOrCreateSession(p, op, u)
    \/ \E p \in Procs : createNewSession(p, TRUE)
    \/ Connecting
    \/ \E c \in ClientIds, phone \in PayPhones : waitForQRSuccess(c, phone)
    \/ \E c \in ClientIds : waitForQRPersist(c, TRUE)
    \/ \E p \in Procs, u \in Users : Logout(p, u, TRUE)
    \/ \E p \in Procs : LogoutClear(p, TRUE)
    \/ \E u \in Users, phone \in PayPhones : CreatePayment(u, phone)
    \/ \E t \in TxnIds : UpdateTransactionStatus(t, "PAID")
    \/ \E p \in Procs : HandleAnalyzeClient(p)
    \/ \E p \in Procs : HandleAnalyzePaid(p, TRUE)
    \/ \E p \in Procs : HandleAnalyzeDenied(p, TRUE)
    \/ \E p \in Procs : HandleAnalyzeCache(p)
    \/ \E p \in Procs : HandleAnalyzeReady(p)
    \/ \E p \in Procs : HandleAnalyzeSession(p)
    \/ \E p \in Procs : Analyze(p)
    \/ \E p \in Procs : AnalyzeAccount(p)
    \/ \E p \in Procs : AnalyzeGroups(p, 0)
    \/ \E p \in Procs, written \in BOOLEAN : AnalyzeAge(p, written, written)

SpecIdentity == Init /\ [][NextIdentity]_vars

\* the analysis cache of one user's session while it is paired, timed out,
\* logged out and paired again with either of two phone numbers: worker 1
\* sends the connects, worker 2 the analysis requests, worker 3 the logouts
NextRebind ==
    \/ \E u \in Users : GetOrCreateSession(1, "Connect", u)
    \/ \E u \in Users : GetOrCreateSession(2, "HandleForceAnalysis", u)
    \/ \E p \in Workers : createNewSession(p, TRUE)
    \/ \E p \in Workers : connect(p)
    \/ \E p \in Workers : connectIO(p)
    \/ \E c \in ClientIds, phone \in PayPhones : waitForQRSuccess(c, phone)
    \/ \E c \in ClientIds : waitForQRPersist(c, TRUE)
    \/ Tick
    \/ \E c \in ClientIds : waitForQRTimeout(c)
    \/ \E u \in Users : Logout(3, u, TRUE)
    \/ \E p \in Workers : LogoutClear(p, TRUE)
    \/ \E p \in Workers : HandleForceAnalysisReady(p)
    \/ \E p \in Workers : HandleForceAnalysisClient(p)
    \/ \E p \in Workers : Analyze(p)
    \/ \E p \in Workers : AnalyzeAccount(p)
    \/ \E p \in Workers : AnalyzeGroups(p, 0)
    \/ \E p \in Workers, written \in BOOLEAN : AnalyzeAge(p, written, written)

SpecRebind == InitWorkers /\ [][NextRebind]_vars

\* the lock calls of the manager's operations, interleaved
NextLocks ==
    \/ \E t \in Threads, op \in LockOps, found \in BOOLEAN : Begin(t, op, found)
    \/ \E t \in Threads : Acquire(t)
    \/ \E t \in Threads : Release(t)
    \/ \E t \in Threads : ExternalCall(t)
    \/ \E t \in Threads : Return(t)

\* the next call of goroutine t returns
Proceed(t) == Acquire(t) \/ Release(t) \/ ExternalCall(t) \/ Return(t)

\* a running goroutine is scheduled, an external call returns, and a mutex
\* that is free again and again is handed to a goroutine that waits for it
LocksFairness == \A t \in Threads : SF_vars(Proceed(t))

SpecLocks == Init /\ [][NextLocks]_vars /\ LocksFairness
\* ----------------------------------------------------------------- claims
ObjectsOf(u) == { i \in 1..nSess : sess[i].UserID = u }

\* request p returns in this step
Returns(p) == procs[p].pc \notin {"idle", "done"} /\ procs'[p].pc = "done"

\* C1: concurrent GetOrCreateSession calls for an unseen user construct one
\* session object: of the objects constructed for a user, the one that no
\* Logout has removed is alone and is the registry's entry, and a caller is
\* handed the registry's entry
C1_OneSessionPerUser ==
    \A u \in Users :
        /\ Cardinality(ObjectsOf(u) \ loggedOut) <= 1
        /\ \A i \in ObjectsOf(u) \ loggedOut : userSessions[u] = i
        /\ \A p \in Procs :
              ( /\ procs[p].pc = "done"
                /\ procs[p].op = "GetOrCreateSession"
                /\ procs[p].ret = "session"
                /\ procs[p].user = u )
              => /\ procs[p].s \in ObjectsOf(u)
                 /\ procs[p].s \notin loggedOut => userSessions[u] = procs[p].s

\* one caller was handed the new session while another, which had found the
\* registry empty, is about to run createNewSession
C1_Witness ==
    \E p, q \in Procs :
        /\ procs[p].pc = "done" /\ procs[p].ret = "session"
        /\ procs[q].pc = "goc_create" /\ procs[q].user = procs[p].user
        /\ loggedOut = {}
        /\ Cardinality(ObjectsOf(procs[p].user)) = 1

\* the phone number bound to the session the registry holds for u
BoundPhone(u) ==
    LET s == userSessions[u] IN
    IF s = NoSession THEN NoID
    ELSE IF sess[s].Client = NilClient THEN NoID
    ELSE clients[sess[s].Client].storeID

\* C2: an analysis endpoint answers with a result only if, when it answers,
\* a paid transaction exists for the user and the phone bound to the session
C2_ResultOnlyIfPaid ==
    [][ \A p \in Procs :
          (Returns(p) /\ procs'[p].ret = "result")
          => CheckIfUserPaidForPhone(procs[p].user, BoundPhone(procs[p].user)) ]_vars

\* C3: a connect call that passed the guards returns with the session
\* connected or scanning
C3_ConnectEndsConnectedOrScanning ==
    [][ \A p \in Procs :
          (procs[p].pc = "connect_io" /\ Returns(p))
          => sess'[procs[p].s].Status \in {"connected", "scanning"} ]_vars

\* C4: connect on a session that is connected, scanning or connecting, or
\* whose last attempt is younger than the cool-down, returns nil and changes
\* no session field, no client, no watcher and no persistence work
C4_ConnectNoop ==
    [][ \A p \in Procs :
          ( /\ procs[p].pc = "connect"
            /\ procs'[p] # procs[p]
            /\ LET r == sess[procs[p].s] IN
                  \/ r.Status = "connected"
                  \/ r.Status \in {"scanning", "connecting"}
                  \/ r.SinceLastConnectAttempt < ConnectCooldown )
          => /\ procs'[p].pc = "done" /\ procs'[p].ret = "nil"
             /\ sess' = sess
             /\ nClients' = nClients /\ clients' = clients
             /\ pendingSaves' = pendingSaves /\ dbRows' = dbRows ]_vars

\* a connect call has returned at the guards
C4_Witness ==
    \E p \in Procs :
        procs[p].pc = "done" /\ procs[p].op = "Connect" /\ procs[p].at = "guard"

\* C5: when Logout returns, the user has no registry entry, the removed
\* session is disconnected, not ready, without code and without cached
\* result, its client is disconnected, and no credential file is left
C5_LogoutWipes ==
    [][ \A p \in Procs :
          (procs[p].pc = "logout_clear" /\ Returns(p))
          => LET u == procs[p].user
                 r == sess'[procs[p].s]
             IN /\ userSessions'[u] = NoSession
                /\ r.Status = "disconnected" /\ ~r.Ready
                /\ r.QRCode = EmptyString /\ r.AnalysisCache = EmptyCache
                /\ r.Client # NilClient => ~clients'[r.Client].connected
                /\ ~storeFiles'[u] ]_vars

\* no request is in flight
NoRequest == \A p \in Procs : procs[p].pc \in {"idle", "done"}

\* C6: once Logout has returned, with no request in flight and until the
\* next request for the user, the persisted row stays deleted and the
\* credentials stay absent
C6_StaysWiped ==
    [][ \A u \in Users :
          ( /\ NoRequest /\ quiet[u] /\ quiet'[u]
            /\ dbRows[u] = NoRow /\ ~storeFiles[u] /\ diskID[u] = NoID )
          => (dbRows'[u] = NoRow /\ ~storeFiles'[u] /\ diskID'[u] = NoID) ]_vars

\* C7: a registered session leaves scanning only through the success event
\* of its watcher, to connected, or through its timeout, to disconnected
C7_ScanningExits ==
    [][ \A i \in SessIds :
          ( /\ Registered(i) /\ sess[i].Status = "scanning"
            /\ userSessions'[sess[i].UserID] = i
            /\ sess'[i].Status # "scanning" )
          => \E c \in ClientIds :
                /\ clients[c].sess = i /\ clients[c].watcher = "live"
                /\ \/ /\ clients'[c].watcher = "persist_success"
                      /\ sess'[i].Status = "connected"
                   \/ /\ clients'[c].watcher = "persist_timeout"
                      /\ sess'[i].Status = "disconnected" ]_vars

\* a read or a connect has returned while the session was scanning with a
\* code shown
C7_Witness ==
    \E p \in Procs, i \in SessIds :
        /\ Registered(i) /\ sess[i].Status = "scanning"
        /\ sess[i].QRCode # EmptyString
        /\ procs[p].pc = "done" /\ procs[p].at \in {"guard", "read"}

\* C8: a session is scanning for no longer than the pairing wait
C8_ScanningEndsInTime ==
    \A i \in 1..nSess :
        sess[i].Status = "scanning" => sess[i].SinceLastActivity <= QRTimeout

C10_CodeOnlyWhileScanning ==
    \A i \in 1..nSess :
        sess[i].QRCode # EmptyString => sess[i].Status = "scanning"


PaidForOther(u, phone) ==
    \E t \in 1..nTxns :
        txns[t].user = u /\ txns[t].status = "paid" /\ txns[t].phone # phone

Denies(p) == procs[p].pc = "ha_denied" /\ procs'[p].pc = "done"

SomeMetricNonZero(m) ==
    \/ m.TotalChats # 0 \/ m.TotalContacts # 0 \/ m.AccountAgeDays # 0
    \/ m.TotalGroups # 0 \/ m.TotalChatWithContact # 0
    \/ m.SensitiveContentCount # 0 \/ m.TotalUnsavedChats # 0
    \/ m.UnknownNumberChats # 0

\* the identity bound to session record r
Identity(r) == IF r.Client = NilClient THEN NoID ELSE clients[r.Client].storeID

\* a slot exists, its metrics are not all zero and an identity is bound
SlotHit(r) ==
    /\ r.AnalysisCache # EmptyCache
    /\ SomeMetricNonZero(r.AnalysisCache[1])
    /\ Identity(r) # NoID

\* C14: the cache path of Analyze and GetCachedAnalysis answer with a hit
\* exactly when a slot exists, one of its eight metrics is not zero and the
\* session's bound identity is not nil
C14_HitExactly ==
    [][ \A p \in Procs :
          /\ (/\ procs[p].pc = "analyze" /\ procs'[p].pc # "analyze"
               /\ sess[procs[p].s].Client # NilClient /\ sess[procs[p].s].Ready
               => (procs'[p].at = "session cache" <=> SlotHit(sess[procs[p].s])))
          /\ (procs[p].pc = "ha_cache" /\ procs'[p].pc # "ha_cache"
               => (procs'[p].at = "cached"
                     <=> /\ userSessions[procs[p].user] # NoSession
                         /\ SlotHit(sess[userSessions[procs[p].user]]))) ]_vars

C16_FailedRestorePurges ==
    [][ \A p \in Procs :
          /\ procs[p].pc = "connect_io"
          /\ sessionDB[procs[p].s] # NoID
          /\ procs'[p].pc = "done" /\ procs'[p].at = "pairing"
          => /\ sessionDB'[procs[p].s] = NoID
             /\ sess'[procs[p].s].Status = "scanning"
             /\ clients'[nClients'].qrChan = "open"
             /\ clients'[nClients'].watcher = "live" ]_vars

\* C17: a session whose last connect() returned an error (it was left
\* connecting, with no connect in progress) can be retried: a connect()
\* issued once the cool-down has passed goes on to a new connection attempt
C17_RetryAfterError ==
    [][ \A p \in Procs :
          /\ procs[p].pc = "connect" /\ procs'[p] # procs[p]
          /\ sess[procs[p].s].mu = NoProc
          /\ sess[procs[p].s].Status = "connecting"
          /\ sess[procs[p].s].SinceLastConnectAttempt >= ConnectCooldown
          => procs'[p].pc = "connect_io" ]_vars

\* --------------------------------------------------------------- Analyze
InAnalyze(p) == procs[p].pc \in {"analyze_io", "analyze_groups", "analyze_age"}

\* C18: Analyze always terminates: every fetch it makes is bounded by a
\* timeout, so that a client that never answers cannot keep a request
\* inside Analyze for ever
C18_AnalyzeTerminates ==
    \A p \in Procs : InAnalyze(p) ~> ~InAnalyze(p)

\* request p leaves Analyze with an error
AnalyzeErrs(p) ==
    /\ procs[p].pc \in {"analyze", "analyze_io"}
    /\ procs'[p].pc = "done" /\ procs'[p].ret = "500"

C20_StrengthBands ==
    calculated.strength # ""
    => LET scores == evaluations(calculated.metrics)
           total == SumTo(scores, 8)
       IN /\ \A k \in 1..8 : scores[k] \in {1, 2, 3}
          /\ total \in 8..24
          /\ calculated.strength = "Baik" <=> total >= 20
          /\ calculated.strength = "Cukup" <=> total \in 12..19
          /\ calculated.strength = "Buruk" <=> total \in 8..11

\* the lowest total that is still rated Baik
C20_Witness ==
    /\ calculated.strength = "Baik"
    /\ SumTo(evaluations(calculated.metrics), 8) = 20

\* C21: each metric is scored 3, 2 or 1 by its own two thresholds, the
\* first five metrics rising and the last three falling; moving one metric
\* towards its better side never lowers the total; and the octuple
\* 150, 250, 400, 90, 120, 2, 50, 10 scores 3 eight times, is rated Baik
\* and has mean 3.0
C21_Thresholds ==
    calculated.strength # ""
    => LET m == calculated.metrics
           scores == evaluations(m)
           good == << 100, 200, 365, 80, 100, 5, 100, 15 >>
           fair == << 40, 100, 90, 30, 30, 10, 500, 30 >>
           rising == 1..5
           Reaches(k, v, t) == IF k \in rising THEN v >= t ELSE v <= t
           Band(k, v) == IF Reaches(k, v, good[k]) THEN 3
                         ELSE IF Reaches(k, v, fair[k]) THEN 2 ELSE 1
           Better(k, v, w) == IF k \in rising THEN v >= w ELSE v <= w
       IN /\ \A k \in 1..8 : scores[k] = Band(k, m[k])
          /\ \A k \in 1..8 : \A v \in MetricSamples[k] :
                Better(k, v, m[k])
                => totalScore([m EXCEPT ![k] = v]) >= totalScore(m)
          /\ m = << 150, 250, 400, 90, 120, 2, 50, 10 >>
             => /\ \A k \in 1..8 : scores[k] = 3
                /\ calculated.strength = "Baik"
                /\ averageScore(totalScore(m)) = 3000

\* the octuple of the claim has been rated
C21_Witness ==
    /\ calculated.metrics = << 150, 250, 400, 90, 120, 2, 50, 10 >>
    /\ calculated.strength = "Baik"

C23_StatusInFour ==
    \A t \in 1..nTxns : txns[t].status \in {"pending", "paid", "failed", "expired"}

\* ------------------------------------------------------------- isolation
\* the fields of a session that a request can see
Fields(r) == << r.Status, r.Ready, r.QRCode, r.Client, r.AnalysisCache >>

\* this step is one of an operation for user u: a request for u moves, or
\* the pairing watcher of a session of u does
ActsFor(u) ==
    \/ \E p \in DOMAIN procs :
          /\ procs'[p] # procs[p]
          /\ ~(procs[p].pc = "done" /\ procs'[p] = IdleProc)
          /\ procs'[p].user = u
    \/ /\ procs' = procs
       /\ \E c \in ClientIds :
             clients'[c] # clients[c] /\ sess[clients[c].sess].UserID = u

\* this step changes the registry entry of user u or a field of a session of u
Touches(u) ==
    \/ userSessions'[u] # userSessions[u]
    \/ \E i \in SessIds : sess[i].UserID = u /\ Fields(sess'[i]) # Fields(sess[i])

\* no client serves two sessions, and a client is bound to no identity or
\* to the one its own user paired
OwnClients ==
    /\ \A i, j \in 1..nSess :
          i # j /\ sess[i].Client # NilClient => sess[i].Client # sess[j].Client
    /\ \A c \in 1..nClients :
          clients[c].storeID \in {NoID, TenantPhone(sess[clients[c].sess].UserID)}

\* C24: an operation for one user changes no field of another user's
\* session and not their registry entry, and no client and no stored
\* credential of one user ends up in a session of another
C24_Isolation ==
    [][ /\ \A a, b \in Tenants :
              a # b /\ ActsFor(a) /\ ~ActsFor(b) => ~Touches(b)
        /\ OwnClients' ]_vars

\* the request of p answers in this step
Answers(p) == procs'[p] # procs[p] /\ procs'[p].pc = "done"

\* C25: a request without a valid bearer token is answered 401 in a step that
\* leaves the registry, every session, every client and every table as they
\* were; HandleAnalyze answers 503 at its client check when the session has no
\* client or the client has no identity, 503 at its readiness check when the
\* session is not Ready, 402 when the payment check denied; a 401, 503 or 402
\* of HandleAnalyze comes from one of these checks, before Analyze, and its
\* step writes no session and no analysis row
C25_RefusalsBeforeAnalysis ==
    [][ \A p \in Procs :
          /\ Answers(p) /\ procs'[p].ret = "401" =>
                /\ procs[p].pc \in {"idle", "done"}
                /\ UNCHANGED << userSessions, regMu, nSess, sess, sessionDB, diskID,
                                nClients, clients, storeFiles, dbRows, pendingSaves,
                                spawned, loggedOut, analysisDB >>
          /\ Answers(p) /\ procs'[p].op = "HandleAnalyze"
                        /\ procs'[p].ret \in {"503", "402"} =>
                /\ procs[p].pc \in {"ha_client", "ha_denied", "ha_ready"}
                /\ UNCHANGED << userSessions, nSess, sess, nClients, clients,
                                spawned, analysisDB >>
          /\ procs'[p] # procs[p] /\ procs[p].pc = "ha_client"
                /\ (\/ sess[procs[p].s].Client = NilClient
                    \/ clients[sess[procs[p].s].Client].storeID = NoID) =>
                procs'[p].pc = "done" /\ procs'[p].ret = "503"
          /\ procs'[p] # procs[p] /\ procs[p].pc = "ha_ready"
                /\ ~sess[procs[p].s].Ready =>
                procs'[p].pc = "done" /\ procs'[p].ret = "503"
          /\ procs'[p] # procs[p] /\ procs[p].pc = "ha_denied" =>
                procs'[p].pc = "done" /\ procs'[p].ret = "402" ]_vars

\* a request was answered 401 while a Ready session sat in the registry
C25_Witness ==
    \E p \in Procs, u \in Users :
        /\ procs[p].pc = "done" /\ procs[p].ret = "401"
        /\ procs[p].op = "HandleAnalyze"
        /\ userSessions[u] # NoSession
        /\ sess[userSessions[u]].Ready

\* a pairing watcher of session i has not exited
Watched(i) ==
    \E c \in 1..nClients :
        /\ clients[c].sess = i
        /\ clients[c].watcher \in {"live", "persist_success", "persist_timeout"}

\* C26: once Logout has removed a session from the registry, a step of its
\* pairing watcher changes neither Status, Ready nor QRCode of that session
\* and writes no status row
C26_WatcherSilentAfterLogout ==
    [][ /\ \A i \in loggedOut :
              Watched(i) /\ procs' = procs =>
                  /\ sess'[i].Status = sess[i].Status
                  /\ sess'[i].Ready = sess[i].Ready
                  /\ sess'[i].QRCode = sess[i].QRCode
        /\ \A c \in 1..nClients :
              clients[c].sess \in loggedOut
                  /\ clients'[c].watcher # clients[c].watcher => dbRows' = dbRows ]_vars

\* request p is inside an external call: the client's logout and disconnect,
\* the file removal and the row delete of Logout, or the client's Connect
InExternalCall(p) == procs[p].pc \in {"logout_clear", "connect_io"}

\* C27: while a request for user A is inside an external call, it does not
\* hold the registry lock that a lookup for another user B with a registry
\* entry has to take
C27_LookupNeverBlocked ==
    \A p \in DOMAIN procs, b \in DOMAIN userSessions :
        /\ InExternalCall(p)
        /\ procs[p].user # b
        /\ userSessions[b] # NoSession
        => regMu # p

\* the fields of session i that its lock guards
Guarded(r) == << r.Status, r.Ready, r.QRCode, r.Client >>

\* C28: a step that writes Status, Ready, QRCode or Client of a session is
\* taken with the session's lock: the lock is free for the writer to take, or
\* the writer is the request that holds it
C28_WritesUnderLock ==
    [][ \A i \in 1..nSess :
          Guarded(sess'[i]) # Guarded(sess[i]) =>
              \/ sess[i].mu = NoProc
              \/ procs'[sess[i].mu] # procs[sess[i].mu] ]_vars

\* session i shows Ready and connected over a client that is not connected or
\* has lost its identity
Drifted(i) ==
    /\ i \in 1..nSess
    /\ sess[i].Ready
    /\ sess[i].Status = "connected"
    /\ sess[i].Client # NilClient
    /\ \/ ~clients[sess[i].Client].connected
       \/ clients[sess[i].Client].storeID = NoID

\* C29: a session that is Ready and connected while its connection is down
\* or without identity, and that nobody logs out, eventually has Ready false
\* and a status other than connected
C29_DriftReconciled ==
    \A i \in SessIds :
        Drifted(i) ~> (~sess[i].Ready /\ sess[i].Status # "connected")


\* the pairing watchers of session i that wait on their QR channel
LiveWatchers(i) ==
    { c \in 1..nClients : clients[c].sess = i /\ clients[c].watcher = "live" }

\* C30: no session has two live pairing watchers
C30_OneWatcher ==
    \A i \in 1..nSess : Cardinality(LiveWatchers(i)) <= 1

\* monitor m was started before a Reset that closed the stop channel of its time
StartedBeforeReset(m) ==
    /\ wa.monitors[m].kind \in {"qr", "status"}
    /\ wa.monitors[m].born \in wa.closed

\* C31: once Reset has returned, a QR monitor or status monitor started
\* before it makes no write that changes ready or qrCode
C31_MonitorsQuietAfterReset ==
    [][ \A m \in Monitors :
          /\ StartedBeforeReset(m)
          /\ wa.monitors[m].pc = "lock"
          /\ wa'.monitors[m].pc # "lock"
          => wa'.ready = wa.ready /\ wa'.qrCode = wa.qrCode ]_vars

\* C32: when POST /api/wa/logout reports success, the registry holds no
\* entry for the user and the user's credential files are gone
C32_LogoutLeavesNothing ==
    [][ \A p \in Procs :
          /\ Answers(p)
          /\ procs'[p].op = "HandleLogout"
          /\ procs'[p].ret \in {"200", "nil"}
          => /\ userSessions'[procs'[p].user] = NoSession
             /\ ~storeFiles'[procs'[p].user] ]_vars

\* request p is inside a call that ends with a write to the tables
InStoreCall(p) ==
    procs[p].pc \in {"goc_create", "goc_save", "analyze_age", "analyze_save"}

Counted == Len(calculated.metrics) = 5 /\ calculated.returned # << >>

\* C34, as the function computes it: the result is the larger of the
\* client's count (0 without a client or on an error) and the stored count
\* when one of them is positive, and the count among the contacts when both
\* are zero
C34_LargerOfJoinedAndStored ==
    Counted =>
        LET m == calculated.metrics
            joined == IF m[2] /\ m[3] THEN m[4] ELSE 0
            result == calculated.returned[1]
        IN /\ result >= joined /\ result >= m[5]
           /\ joined > 0 \/ m[5] > 0 => result \in {joined, m[5]}
           /\ joined = 0 /\ m[5] = 0 => result = m[1]

\* more groups among the contacts than the client and the store report
C34_Witness ==
    /\ Counted
    /\ calculated.metrics[2] /\ calculated.metrics[3]
    /\ calculated.metrics[4] > 0
    /\ calculated.metrics[1] > calculated.metrics[4]
    /\ calculated.metrics[1] > calculated.metrics[5]

\* C34 as stated: the result is the maximum of the three sources
C34_MaximumOfThree ==
    Counted =>
        LET m == calculated.metrics
            joined == IF m[2] /\ m[3] THEN m[4] ELSE 0
            result == calculated.returned[1]
        IN /\ result >= m[1] /\ result >= joined /\ result >= m[5]
           /\ result \in {m[1], joined, m[5]}

\* C35: once Logout(u) has returned and until the next request for u, the
\* connect that an earlier GetQRCode spawned neither registers a session for
\* u nor starts a pairing flow for u
C35_NoSessionFromSpawnedConnect ==
    [][ \A p \in Procs :
          ( /\ procs[p].op = "SpawnedConnect"
            /\ procs'[p] # procs[p]
            /\ quiet[procs[p].user] )
          => /\ userSessions'[procs[p].user] = userSessions[procs[p].user]
             /\ nClients' = nClients ]_vars

\* the result of analysing the account paired as id
ResultOf(id) == AnalysisResult(Saved(id), Unsaved(id), 0)

\* the result with which request p answers in this step
Returned(p) ==
    CASE procs'[p].at = "cached" -> GetCachedAnalysis(procs[p].user)
      [] procs'[p].at = "session cache" -> sess[procs[p].s].AnalysisCache
      [] OTHER -> AnalysisResult(procs[p].saved, procs[p].unsaved, procs[p].groups)

\* C36: a result that a HandleAnalyze request returns, fresh or cached, is
\* the result of the account whose paid transaction the request checked
C36_ResultOfGatedIdentity ==
    [][ \A p \in Procs :
          ( /\ procs[p].op = "HandleAnalyze"
            /\ Answers(p)
            /\ procs'[p].ret = "result" )
          => Returned(p) = ResultOf(procs[p].phone) ]_vars

\* C37: in a session that the registry holds and that is bound to an
\* identity, a cache slot that is not empty holds the result of that identity
C37_CacheOfBoundIdentity ==
    \A i \in SessIds :
        ( /\ Registered(i)
          /\ sess[i].AnalysisCache # EmptyCache
          /\ Identity(sess[i]) # NoID )
        => sess[i].AnalysisCache = ResultOf(Identity(sess[i]))

\* the registry holds a session bound to one phone number with that
\* number's result cached, after an earlier session of the user, logged
\* out since, was analysed under the other number
C37_Witness ==
    \E i \in SessIds, j \in loggedOut :
        /\ Registered(i)
        /\ sess[j].UserID = sess[i].UserID
        /\ Identity(sess[i]) = 2
        /\ sess[i].AnalysisCache = ResultOf(2)
        /\ sess[j].AnalysisCache = ResultOf(1)

\* the three invariants on session record r
SessionInvariants(r) ==
    /\ r.Status \in {"disconnected", "connecting", "scanning", "connected"}
    /\ r.Ready => r.Status = "connected"
    /\ r.Status \in {"scanning", "connected"} => r.Client # NilClient

C39_PaidStaysPaid ==
    [][ /\ \A t \in 1..nTxns :
              txns[t].status = "paid" => txns'[t].status = "paid"
        /\ \A u \in Payers, phone \in PayPhones :
              CheckIfUserPaidForPhone(u, phone)
                  => \E t \in 1..nTxns' :
                        /\ txns'[t].user = u /\ txns'[t].phone = phone
                        /\ txns'[t].status = "paid" ]_vars

\* the three mutexes
Mutexes == {"m.mu", "session.mu", "session.AnalysisMu"}

\* goroutine t is inside Lock or RLock
Acquiring(t) == NextCall(t)[1] \in {"Lock", "RLock"}

\* goroutine t holds some mutex
Locked(t) == \E l \in Mutexes : Holds(t, l)

\* C40: a goroutine that asks for a mutex holds nothing, or it holds the
\* registry's and asks for the session's or the cache's; and a goroutine
\* that holds a mutex comes to hold none
C40_LocksOrderedAndReleased ==
    /\ [](\A t \in Threads :
             Acquiring(t) =>
                 \A l \in Mutexes : Holds(t, l) => l = "m.mu" /\ NextCall(t)[2] # "m.mu")
    /\ \A t \in Threads : Locked(t) ~> ~Locked(t)

\* GetSessionInfo holds the registry and waits for the session, which a
\* connect holds
C40_Witness ==
    \E t, u \in Threads :
        /\ threads[t].op = "GetSessionInfo"
        /\ Holds(t, "m.mu") /\ NextCall(t) = << "RLock", "session.mu" >>
        /\ threads[u].op = "Connect" /\ HoldsAs(u, "Lock", "session.mu")
====
